---- MODULE Spec2Model ----
(***************************************************************************)
(* A model of clean-my-mac's scanning core: the deletion-safety rules of   *)
(* domain/deletability-rules.ts, the installed-application matcher of      *)
(* application/services/app-matcher.ts and the concurrent, pruning         *)
(* directory walker of application/services/scan-service.ts.               *)
(*                                                                         *)
(* A JavaScript string is modelled as a sequence of one-character strings, *)
(* so that slicing, splitting and the regular expressions of the source    *)
(* are computed, not assumed.                                              *)
(***************************************************************************)
EXTENDS Integers, Sequences, FiniteSets, TLC

\* ------------------------------------------------------------------------
\* Strings and regular expressions
\* ------------------------------------------------------------------------

Upper == <<"A", "B", "C", "D", "E", "F", "G", "H", "I", "J", "K", "L", "M", "N", "O", "P", "Q", "R", "S", "T", "U", "V", "W", "X", "Y", "Z">>
Lower == <<"a", "b", "c", "d", "e", "f", "g", "h", "i", "j", "k", "l", "m", "n", "o", "p", "q", "r", "s", "t", "u", "v", "w", "x", "y", "z">>
Digits == {"0", "1", "2", "3", "4", "5", "6", "7", "8", "9"}

\* String.prototype.toLowerCase, one character
toLowerChar(c) ==
  IF \E i \in 1..Len(Upper) : Upper[i] = c
  THEN Lower[CHOOSE i \in 1..Len(Upper) : Upper[i] = c]
  ELSE c

\* String.prototype.toLowerCase
toLowerCase(s) == [i \in 1..Len(s) |-> toLowerChar(s[i])]

\* String.prototype.toUpperCase, one character
toUpperChar(c) ==
  IF \E i \in 1..Len(Lower) : Lower[i] = c
  THEN Upper[CHOOSE i \in 1..Len(Lower) : Lower[i] = c]
  ELSE c

\* the characters \s matches among those the model uses
Whitespace == {" ", "\t"}

\* A regular expression is a sequence of atoms (a character set with a
\* quantifier: exactly one, ?, or *) and a flag for a trailing $.
Cls(S) == [cs |-> S, q |-> "one"]
OptC(S) == [cs |-> S, q |-> "opt"]
StarC(S) == [cs |-> S, q |-> "star"]
Word(s) == [i \in 1..Len(s) |-> Cls({s[i]})]
Re(atoms, anchoredEnd) == [atoms |-> atoms, anchoredEnd |-> anchoredEnd]

\* does the pattern, from atom pi on, match s starting at position si
RECURSIVE MatchFrom(_, _, _, _)
MatchFrom(re, pi, s, si) ==
  IF pi > Len(re.atoms)
  THEN (~re.anchoredEnd) \/ si > Len(s)
  ELSE LET a == re.atoms[pi]
           here == si <= Len(s) /\ s[si] \in a.cs
       IN  CASE a.q = "one" -> here /\ MatchFrom(re, pi + 1, s, si + 1)
             [] a.q = "opt" -> (here /\ MatchFrom(re, pi + 1, s, si + 1))
                               \/ MatchFrom(re, pi + 1, s, si)
             [] a.q = "star" -> (here /\ MatchFrom(re, pi, s, si + 1))
                                \/ MatchFrom(re, pi + 1, s, si)

\* RegExp.prototype.test of an unanchored-start pattern without flags
RegExpTest(re, s) == \E si \in 1..(Len(s) + 1) : MatchFrom(re, 1, s, si)

\* String.prototype.includes
includes(s, t) ==
  \E i \in 0..(Len(s) - Len(t)) : \A k \in 1..Len(t) : s[i + k] = t[k]

\* String.prototype.startsWith
startsWith(s, t) ==
  Len(t) <= Len(s) /\ \A k \in 1..Len(t) : s[k] = t[k]

\* String.prototype.slice(n) for 0 <= n
sliceFrom(s, n) == IF n >= Len(s) THEN << >> ELSE SubSeq(s, n + 1, Len(s))

\* String.prototype.split(sep) for a one-character separator
RECURSIVE splitOn(_, _)
splitOn(s, sep) ==
  IF \A i \in 1..Len(s) : s[i] # sep
  THEN << s >>
  ELSE LET i == CHOOSE j \in 1..Len(s) :
                  s[j] = sep /\ \A k \in 1..(j - 1) : s[k] # sep
       IN  << SubSeq(s, 1, i - 1) >> \o splitOn(SubSeq(s, i + 1, Len(s)), sep)

\* ------------------------------------------------------------------------
\* domain/scan-category.ts
\* ------------------------------------------------------------------------

SCAN_CATEGORY ==
  [APP_SUPPORT |-> "application-support",
   CACHES |-> "caches",
   PREFERENCES |-> "preferences",
   SAVED_APP_STATE |-> "saved-application-state",
   CONTAINERS |-> "containers",
   GROUP_CONTAINERS |-> "group-containers",
   LAUNCH_ITEMS |-> "launch-items",
   SYSTEM |-> "system"]

ScanCategory == {SCAN_CATEGORY[k] : k \in DOMAIN SCAN_CATEGORY}

\* ------------------------------------------------------------------------
\* domain/deletability-rules.ts
\* ------------------------------------------------------------------------

SAFE_DELETE_PATTERNS ==
  <<
     Re(<<Cls({"C","c"})>> \o Word(<<"a","c","h","e">>) \o <<Cls({"S","s"})>> \o Word(<<"t","o","r","a","g">>) \o <<OptC({"e"})>>, TRUE),  \* /[Cc]ache[Ss]torage?$/
     Re(<<Cls({"C","c"})>> \o Word(<<"a","c","h","e">>) \o <<OptC({"s"})>>, TRUE),  \* /[Cc]ache[s]?$/
     Re(<<Cls({"C","c"})>> \o Word(<<"a","c","h","e","s">>), TRUE),  \* /[Cc]aches$/
     Re(Word(<<".","c","a","c","h","e">>), TRUE),  \* /\.cache$/
     Re(<<Cls({"C","c"})>> \o Word(<<"a","c","h","e",".","d","b">>), TRUE),  \* /[Cc]ache\.db$/
     Re(<<Cls({"L","l"})>> \o Word(<<"o","g">>) \o <<OptC({"s"})>>, TRUE),  \* /[Ll]og[s]?$/
     Re(Word(<<".","l","o","g">>), TRUE),  \* /\.log$/
     Re(<<Cls({"T","t"})>> \o Word(<<"e","m","p">>) \o <<OptC({"s"})>>, TRUE),  \* /[Tt]emp[s]?$/
     Re(<<Cls({"T","t"})>> \o Word(<<"e","m","p","o","r","a","r","y">>), FALSE),  \* /[Tt]emporary/
     Re(<<Cls({"T","t"})>> \o Word(<<"m","p">>), TRUE),  \* /[Tt]mp$/
     Re(<<Cls({"S","s"})>> \o Word(<<"e","r","v","i","c","e">>) \o <<StarC(Whitespace)>> \o <<Cls({"W","w"})>> \o Word(<<"o","r","k","e","r">>), FALSE),  \* /[Ss]ervice\s*[Ww]orker/
     Re(<<Cls({"S","s"})>> \o Word(<<"w",".","j","s">>), TRUE),  \* /[Ss]w\.js$/
     Re(<<Cls({"I","i"})>> \o Word(<<"n","d","e","x","e","d","D","B">>), TRUE),  \* /[Ii]ndexedDB$/
     Re(<<Cls({"L","l"})>> \o Word(<<"o","c","a","l">>) \o <<StarC(Whitespace)>> \o <<Cls({"S","s"})>> \o Word(<<"t","o","r","a","g","e">>), TRUE),  \* /[Ll]ocal\s*[Ss]torage$/
     Re(<<Cls({"G","g"})>> \o Word(<<"p","u","c","a","c","h","e">>), TRUE),  \* /[Gg]pucache$/
     Re(<<Cls({"S","s"})>> \o Word(<<"h","a","d","e","r","c","a","c","h","e">>), TRUE),  \* /[Ss]hadercache$/
     Re(<<Cls({"C","c"})>> \o Word(<<"o","d","e">>) \o <<StarC(Whitespace)>> \o <<Cls({"C","c"})>> \o Word(<<"a","c","h","e">>), TRUE),  \* /[Cc]ode\s*[Cc]ache$/
     Re(Word(<<".","o","l","d">>), TRUE),  \* /\.old$/
     Re(Word(<<".","b","a","k">>), TRUE),  \* /\.bak$/
     Re(Word(<<".","b","a","c","k","u","p">>), TRUE)   \* /\.backup$/
  >>

UNSAFE_PATTERNS ==
  <<
     Re(<<Cls({"D","d"})>> \o Word(<<"a","t","a">>), TRUE),  \* /[Dd]ata$/
     Re(<<Cls({"U","u"})>> \o Word(<<"s","e","r">>) \o <<StarC(Whitespace)>> \o <<Cls({"D","d"})>> \o Word(<<"a","t","a">>), TRUE),  \* /[Uu]ser\s*[Dd]ata$/
     Re(<<Cls({"D","d"})>> \o Word(<<"a","t","a","b","a","s","e">>) \o <<OptC({"s"})>>, TRUE),  \* /[Dd]atabase[s]?$/
     Re(<<Cls({"P","p"})>> \o Word(<<"r","e","f","e","r","e","n","c","e">>) \o <<OptC({"s"})>>, TRUE),  \* /[Pp]reference[s]?$/
     Re(<<Cls({"P","p"})>> \o Word(<<"r","e","f">>) \o <<OptC({"s"})>>, TRUE),  \* /[Pp]refs?$/
     Re(<<Cls({"E","e"})>> \o Word(<<"x","t","e","n","s","i","o","n">>) \o <<OptC({"s"})>>, TRUE),  \* /[Ee]xtension[s]?$/
     Re(<<Cls({"P","p"})>> \o Word(<<"l","u","g","i","n">>) \o <<OptC({"s"})>>, TRUE),  \* /[Pp]lugin[s]?$/
     Re(<<Cls({"S","s"})>> \o Word(<<"a","v","e","d">>) \o <<StarC(Whitespace)>> \o <<Cls({"S","s"})>> \o Word(<<"t","a","t","e">>), TRUE),  \* /[Ss]aved\s*[Ss]tate$/
     Re(Word(<<".","a","p","p">>), TRUE),  \* /\.app$/
     Re(Word(<<".","a","p","p",".","d","S","Y","M">>), TRUE),  \* /\.app\.dSYM$/
     Re(<<Cls({"C","c"})>> \o Word(<<"o","d","e">>) \o <<Cls({"S","s"})>> \o Word(<<"i","g","n","a","t","u","r","e">>), FALSE)   \* /[Cc]ode[Ss]ignature/
  >>

LEAF_CACHE_DIR_PATTERNS ==
  <<
     Re(<<Cls({"I","i"})>> \o Word(<<"n","d","e","x","e","d","D","B">>), FALSE),  \* /[Ii]ndexedDB/
     Re(Word(<<".","i","n","d","e","x","e","d","d","b",".","l","e","v","e","l","d","b">>), TRUE),  \* /\.indexeddb\.leveldb$/
     Re(Word(<<".","l","e","v","e","l","d","b">>), TRUE),  \* /\.leveldb$/
     Re(<<Cls({"L","l"})>> \o Word(<<"o","c","a","l">>) \o <<StarC(Whitespace)>> \o <<Cls({"S","s"})>> \o Word(<<"t","o","r","a","g","e">>), FALSE),  \* /[Ll]ocal\s*[Ss]torage/
     Re(Word(<<"l","e","v","e","l","d","b">>), TRUE),  \* /leveldb$/
     Re(<<Cls({"C","c"})>> \o Word(<<"a","c","h","e">>) \o <<Cls({"S","s"})>> \o Word(<<"t","o","r","a","g">>) \o <<OptC({"e"})>>, TRUE),  \* /[Cc]ache[Ss]torage?$/
     Re(<<Cls({"C","c"})>> \o Word(<<"a","c","h","e">>) \o <<OptC({"s"})>>, TRUE),  \* /[Cc]ache[s]?$/
     Re(<<Cls({"C","c"})>> \o Word(<<"a","c","h","e","s">>), TRUE),  \* /[Cc]aches$/
     Re(Word(<<".","c","a","c","h","e">>), TRUE),  \* /\.cache$/
     Re(<<Cls({"L","l"})>> \o Word(<<"o","g">>) \o <<OptC({"s"})>>, TRUE),  \* /[Ll]og[s]?$/
     Re(<<Cls({"H","h"})>> \o Word(<<"i","s","t","o","r","y">>), TRUE),  \* /[Hh]istory$/
     Re(<<Cls({"T","t"})>> \o Word(<<"e","m","p">>) \o <<OptC({"s"})>>, TRUE),  \* /[Tt]emp[s]?$/
     Re(<<Cls({"T","t"})>> \o Word(<<"e","m","p","o","r","a","r","y">>), FALSE),  \* /[Tt]emporary/
     Re(<<Cls({"T","t"})>> \o Word(<<"m","p">>), TRUE),  \* /[Tt]mp$/
     Re(<<Cls({"G","g"})>> \o Word(<<"p","u","c","a","c","h","e">>), TRUE),  \* /[Gg]pucache$/
     Re(<<Cls({"S","s"})>> \o Word(<<"h","a","d","e","r","c","a","c","h","e">>), TRUE),  \* /[Ss]hadercache$/
     Re(<<Cls({"C","c"})>> \o Word(<<"o","d","e">>) \o <<StarC(Whitespace)>> \o <<Cls({"C","c"})>> \o Word(<<"a","c","h","e">>), TRUE)   \* /[Cc]ode\s*[Cc]ache$/
  >>

\* the for loop over a pattern table: the first pattern that matches the
\* path or the name ends it (every entry of the tables is a RegExp)
RECURSIVE anyPatternMatches(_, _, _, _)
anyPatternMatches(patterns, i, itemPath, itemName) ==
  IF i > Len(patterns) THEN FALSE
  ELSE IF RegExpTest(patterns[i], itemPath) \/ RegExpTest(patterns[i], itemName)
       THEN TRUE
       ELSE anyPatternMatches(patterns, i + 1, itemPath, itemName)

DB_SUFFIX == Re(Word(<<".", "d", "b">>), TRUE)                                   \* /\.db$/
CACHE_DB == Re(<<Cls({"C", "c"})>> \o Word(<<"a", "c", "h", "e", ".", "d", "b">>), FALSE)  \* /[Cc]ache\.db/

\* isSafeToDelete with the category test moved behind the safe patterns
isSafeToDeleteCategoryLate(itemPath, itemName, category, depth) ==
  IF depth > 4 THEN FALSE
  ELSE IF anyPatternMatches(SAFE_DELETE_PATTERNS, 1, itemPath, itemName) THEN TRUE
  ELSE IF category = "preferences" \/ category = "launch-items" THEN FALSE
  ELSE IF anyPatternMatches(UNSAFE_PATTERNS, 1, itemPath, itemName) THEN FALSE
  ELSE IF RegExpTest(DB_SUFFIX, itemPath) /\ ~RegExpTest(CACHE_DB, itemPath) THEN FALSE
  ELSE IF category = "caches" THEN TRUE
  ELSE IF category = "saved-application-state" THEN TRUE
  ELSE FALSE

\* isSafeToDelete with the unsafe patterns tested before the safe ones
isSafeToDeleteUnsafeFirst(itemPath, itemName, category, depth) ==
  IF depth > 4 THEN FALSE
  ELSE IF category = "preferences" \/ category = "launch-items" THEN FALSE
  ELSE IF anyPatternMatches(UNSAFE_PATTERNS, 1, itemPath, itemName) THEN FALSE
  ELSE IF anyPatternMatches(SAFE_DELETE_PATTERNS, 1, itemPath, itemName) THEN TRUE
  ELSE IF RegExpTest(DB_SUFFIX, itemPath) /\ ~RegExpTest(CACHE_DB, itemPath) THEN FALSE
  ELSE IF category = "caches" THEN TRUE
  ELSE IF category = "saved-application-state" THEN TRUE
  ELSE FALSE

isSafeToDelete(itemPath, itemName, category, depth) ==
  IF depth > 4 THEN FALSE
  ELSE IF category = "preferences" \/ category = "launch-items" THEN FALSE
  ELSE IF anyPatternMatches(SAFE_DELETE_PATTERNS, 1, itemPath, itemName) THEN TRUE
  ELSE IF anyPatternMatches(UNSAFE_PATTERNS, 1, itemPath, itemName) THEN FALSE
  ELSE IF RegExpTest(DB_SUFFIX, itemPath) /\ ~RegExpTest(CACHE_DB, itemPath) THEN FALSE
  ELSE IF category = "caches" THEN TRUE
  ELSE IF category = "saved-application-state" THEN TRUE
  ELSE FALSE

calculateDepth(itemPath, basePath) ==
  LET relative == sliceFrom(itemPath, Len(basePath))
      parts == SelectSeq(splitOn(relative, "/"), LAMBDA p : Len(p) > 0)
  IN  Len(parts)

isLeafCacheDirectory(dirPath, dirName) ==
  anyPatternMatches(LEAF_CACHE_DIR_PATTERNS, 1, dirPath, dirName)

\* ------------------------------------------------------------------------
\* application/services/app-matcher.ts
\* An InstalledApp is [name, bundleId, path]; bundleId << >> stands for null
\* (null and the empty string are both falsy where the source tests it).
\* An app is identified by its position in the installed list, 0 for null.
\* ------------------------------------------------------------------------

\* name.toLowerCase().replace(/\s+/g, '').replace(/[^a-z0-9]/g, '')
normalizeName(name) ==
  SelectSeq(SelectSeq(toLowerCase(name), LAMBDA c : c \notin Whitespace),
            LAMBDA c : c \in Digits \/ \E i \in 1..Len(Lower) : Lower[i] = c)

normalizeBundleId(bundleId) == toLowerCase(bundleId)

\* Map.prototype.has / get on a map kept as the sequence of its entries in
\* insertion order
mapHas(m, key) == \E j \in 1..Len(m) : m[j].key = key
mapGet(m, key) ==
  IF mapHas(m, key)
  THEN m[CHOOSE j \in 1..Len(m) : m[j].key = key].app
  ELSE 0

\* buildAppNameMap in which the last app registered under a key keeps it
RECURSIVE buildAppNameMapLastWins(_, _, _)
buildAppNameMapLastWins(installedApps, i, m) ==
  IF i > Len(installedApps) THEN m
  ELSE LET normalizedName == normalizeName(installedApps[i].name)
       IN  buildAppNameMapLastWins(installedApps, i + 1,
             IF mapHas(m, normalizedName)
             THEN [j \in 1..Len(m) |->
                     IF m[j].key = normalizedName THEN [key |-> normalizedName, app |-> i]
                     ELSE m[j]]
             ELSE Append(m, [key |-> normalizedName, app |-> i]))

\* the constructor's loop: the first app registered under a key keeps it
RECURSIVE buildAppNameMap(_, _, _)
buildAppNameMap(installedApps, i, m) ==
  IF i > Len(installedApps) THEN m
  ELSE LET normalizedName == normalizeName(installedApps[i].name)
       IN  buildAppNameMap(installedApps, i + 1,
             IF mapHas(m, normalizedName) THEN m
             ELSE Append(m, [key |-> normalizedName, app |-> i]))

RECURSIVE buildBundleIdMap(_, _, _)
buildBundleIdMap(installedApps, i, m) ==
  IF i > Len(installedApps) THEN m
  ELSE LET bundleId == installedApps[i].bundleId
       IN  buildBundleIdMap(installedApps, i + 1,
             IF bundleId = << >> \/ mapHas(m, normalizeBundleId(bundleId)) THEN m
             ELSE Append(m, [key |-> normalizeBundleId(bundleId), app |-> i]))

appNameMap(installedApps) == buildAppNameMap(installedApps, 1, << >>)
bundleIdMap(installedApps) == buildBundleIdMap(installedApps, 1, << >>)

\* name.replace(/([A-Z])/g, ' $1')
RECURSIVE splitCamelCase(_)
splitCamelCase(s) ==
  IF s = << >> THEN << >>
  ELSE (IF \E i \in 1..Len(Upper) : Upper[i] = Head(s)
        THEN << " ", Head(s) >> ELSE << Head(s) >>) \o splitCamelCase(Tail(s))

\* s.trim().split(/\s+/) followed by the filter on the word length: the
\* maximal runs of non-whitespace characters longer than `than` (the empty
\* word that split gives for an empty string is dropped by the filter too)
RECURSIVE wordsLongerThan(_, _, _)
wordsLongerThan(s, cur, than) ==
  IF s = << >>
  THEN (IF Len(cur) > than THEN << cur >> ELSE << >>)
  ELSE IF Head(s) \in Whitespace
       THEN (IF Len(cur) > than THEN << cur >> ELSE << >>)
            \o wordsLongerThan(Tail(s), << >>, than)
       ELSE wordsLongerThan(Tail(s), Append(cur, Head(s)), than)

appNameWords(name) == wordsLongerThan(toLowerCase(splitCamelCase(name)), << >>, 2)

\* new RegExp(word, 'i').test(s) for a word of letters, digits and dots
\* (an unescaped dot matches any character)
wordRegexTest(word, s) ==
  \E i \in 0..(Len(s) - Len(word)) :
    \A k \in 1..Len(word) : word[k] = "." \/ toLowerChar(s[i + k]) = toLowerChar(word[k])

\* new RegExp(escapedAppName, 'i').test(folderName): the escaped name matches
\* itself literally, in either case
appNameRegexTest(appName, folderName) ==
  includes(toLowerCase(folderName), toLowerCase(appName))

\* s.replace(/\./g, '')
stripDots(s) == SelectSeq(s, LAMBDA c : c # ".")
\* s.replace(/\s+/g, '')
stripWhitespace(s) == SelectSeq(s, LAMBDA c : c \notin Whitespace)
\* s.replace(/app$/i, '')
stripAppSuffix(s) ==
  IF Len(s) >= 3 /\ toLowerCase(SubSeq(s, Len(s) - 2, Len(s))) = << "a", "p", "p" >>
  THEN SubSeq(s, 1, Len(s) - 3) ELSE s

Min(a, b) == IF a < b THEN a ELSE b

\* firstIndex that takes the position after the last for a hit when there
\* is none
firstIndexPastEnd(hits) ==
  IF \E i \in 1..Len(hits) : hits[i]
  THEN CHOOSE i \in 1..Len(hits) : hits[i] /\ \A j \in 1..(i - 1) : ~hits[j]
  ELSE Len(hits) + 1

\* the first position at which hits is true, 0 when there is none: a for
\* loop that returns at its first hit
firstIndex(hits) ==
  IF \E i \in 1..Len(hits) : hits[i]
  THEN CHOOSE i \in 1..Len(hits) : hits[i] /\ \A j \in 1..(i - 1) : ~hits[j]
  ELSE 0

\* one iteration of the "Strategy 3" loop, lines 71-120
matchesByName(app, folderName) ==
  LET normalizedFolderName == normalizeName(folderName)
      folderNameLower == toLowerCase(folderName)
      appNameNormalized == normalizeName(app.name)
      words == appNameWords(app.name)
  IN  \/ appNameRegexTest(app.name, folderName)
      \/ /\ Len(words) > 0
         /\ \A w \in 1..Len(words) : wordRegexTest(words[w], folderNameLower)
      \/ /\ includes(normalizedFolderName, appNameNormalized)
         /\ Len(appNameNormalized) >= 4

\* one iteration of the "Strategy 4" loop, lines 124-155
matchesByBundleId(bundleId, folderName) ==
  LET normalizedFolderName == normalizeName(folderName)
      folderNameLower == toLowerCase(folderName)
      bundleIdParts == splitOn(bundleId, ".")
      lastBundleIdPart == bundleIdParts[Len(bundleIdParts)]
  IN  \/ \E p \in 1..Len(bundleIdParts) : bundleIdParts[p] = normalizedFolderName
      \/ includes(bundleId, normalizedFolderName)
      \/ includes(folderNameLower, bundleId)
      \/ includes(normalizedFolderName, stripDots(bundleId))
      \/ lastBundleIdPart # << >> /\ includes(normalizedFolderName, lastBundleIdPart)

\* one iteration of the "Strategy 5" loop, lines 159-173
matchesByOverlap(appName, folderName) ==
  LET normalizedFolderName == normalizeName(folderName)
      minOverlap == Min(4, Min(Len(normalizedFolderName), Len(appName)))
  IN  \/ includes(normalizedFolderName, appName) /\ Len(appName) >= minOverlap
      \/ includes(appName, normalizedFolderName) /\ Len(normalizedFolderName) >= minOverlap

\* one iteration of the "Strategy 6" loop, lines 177-192
matchesByVariation(app, folderName) ==
  LET folderNameLower == toLowerCase(folderName)
      appNameLower == toLowerCase(app.name)
  IN  \/ startsWith(folderNameLower, appNameLower)
      \/ startsWith(appNameLower, folderNameLower)
      \/ folderNameLower = stripWhitespace(appNameLower)
      \/ folderNameLower = stripAppSuffix(stripWhitespace(appNameLower))

matchResult(isInstalled, matchedApp, matchType) ==
  [isInstalled |-> isInstalled, matchedApp |-> matchedApp, matchType |-> matchType]

\* match with the loop over the bundle ids run before the loop over the names
matchBundleLoopFirst(installedApps, folderName) ==
  LET names == appNameMap(installedApps)
      bundles == bundleIdMap(installedApps)
      normalizedFolderName == normalizeName(folderName)
      exactMatch == mapGet(names, normalizedFolderName)
      bundleIdMatch == mapGet(bundles, normalizedFolderName)
      byName == firstIndex([i \in 1..Len(installedApps) |->
                              matchesByName(installedApps[i], folderName)])
      byBundle == firstIndex([j \in 1..Len(bundles) |->
                                matchesByBundleId(bundles[j].key, folderName)])
      byOverlap == firstIndex([j \in 1..Len(names) |->
                                 matchesByOverlap(names[j].key, folderName)])
      byVariation == firstIndex([i \in 1..Len(installedApps) |->
                                   matchesByVariation(installedApps[i], folderName)])
  IN  IF exactMatch # 0 THEN matchResult(TRUE, exactMatch, "exact-name")
      ELSE IF bundleIdMatch # 0 THEN matchResult(TRUE, bundleIdMatch, "bundle-id")
      ELSE IF byBundle # 0 THEN matchResult(TRUE, bundles[byBundle].app, "bundle-id")
      ELSE IF byName # 0 THEN matchResult(TRUE, byName, "partial-name")
      ELSE IF byOverlap # 0 THEN matchResult(TRUE, names[byOverlap].app, "partial-name")
      ELSE IF byVariation # 0 THEN matchResult(TRUE, byVariation, "partial-name")
      ELSE matchResult(FALSE, 0, "none")

\* AppMatcher.match
match(installedApps, folderName) ==
  LET names == appNameMap(installedApps)
      bundles == bundleIdMap(installedApps)
      normalizedFolderName == normalizeName(folderName)
      exactMatch == mapGet(names, normalizedFolderName)
      bundleIdMatch == mapGet(bundles, normalizedFolderName)
      byName == firstIndex([i \in 1..Len(installedApps) |->
                              matchesByName(installedApps[i], folderName)])
      byBundle == firstIndex([j \in 1..Len(bundles) |->
                                matchesByBundleId(bundles[j].key, folderName)])
      byOverlap == firstIndex([j \in 1..Len(names) |->
                                 matchesByOverlap(names[j].key, folderName)])
      byVariation == firstIndex([i \in 1..Len(installedApps) |->
                                   matchesByVariation(installedApps[i], folderName)])
  IN  IF exactMatch # 0 THEN matchResult(TRUE, exactMatch, "exact-name")
      ELSE IF bundleIdMatch # 0 THEN matchResult(TRUE, bundleIdMatch, "bundle-id")
      ELSE IF byName # 0 THEN matchResult(TRUE, byName, "partial-name")
      ELSE IF byBundle # 0 THEN matchResult(TRUE, bundles[byBundle].app, "bundle-id")
      ELSE IF byOverlap # 0 THEN matchResult(TRUE, names[byOverlap].app, "partial-name")
      ELSE IF byVariation # 0 THEN matchResult(TRUE, byVariation, "partial-name")
      ELSE matchResult(FALSE, 0, "none")

\* ------------------------------------------------------------------------
\* The world the ports answer from: a directory tree (FileSystemPort), the
\* size of every path (DiskUsagePort) and the installed applications
\* (AppDetectionPort). Nodes 1-4 are the directories targets point at.
\* ------------------------------------------------------------------------

FsTree ==
  <<
    [name |-> <<"L", "i", "b">>, parent |-> 0, type |-> "directory"],  \* 1
    [name |-> <<"D", "e", "e", "p">>, parent |-> 0, type |-> "directory"],  \* 2
    [name |-> <<"C", "a", "c", "h", "e", "s">>, parent |-> 0, type |-> "directory"],  \* 3
    [name |-> <<"A", "g", "e", "n", "t", "s">>, parent |-> 0, type |-> "directory"],  \* 4
    [name |-> <<"N", "o", "t", "i", "o", "n">>, parent |-> 1, type |-> "directory"],  \* 5
    [name |-> <<"E", "x", "t", "e", "n", "s", "i", "o", "n", "s">>, parent |-> 5, type |-> "directory"],  \* 6
    [name |-> <<"L", "o", "g", "s">>, parent |-> 5, type |-> "directory"],  \* 7
    [name |-> <<"o", "l", "d">>, parent |-> 7, type |-> "directory"],  \* 8
    [name |-> <<"Z", "e", "d">>, parent |-> 1, type |-> "directory"],  \* 9
    [name |-> <<"n", "o", "t", "e", "s", ".", "d", "b">>, parent |-> 1, type |-> "file"],  \* 10
    [name |-> <<"a">>, parent |-> 2, type |-> "directory"],  \* 11
    [name |-> <<"U", "s", "e", "r", " ", "D", "a", "t", "a">>, parent |-> 11, type |-> "directory"],  \* 12
    [name |-> <<"N", "o", "t", "i", "o", "n">>, parent |-> 12, type |-> "directory"],  \* 13
    [name |-> <<"d">>, parent |-> 13, type |-> "directory"],  \* 14
    [name |-> <<"C", "a", "c", "h", "e">>, parent |-> 14, type |-> "directory"],  \* 15
    [name |-> <<"x">>, parent |-> 15, type |-> "directory"],  \* 16
    [name |-> <<"T", "e", "m", "p">>, parent |-> 3, type |-> "directory"],  \* 17
    [name |-> <<"i", "n">>, parent |-> 17, type |-> "directory"],  \* 18
    [name |-> <<"l", "i", "n", "k">>, parent |-> 3, type |-> "symlink"],  \* 19
    [name |-> <<"j", "o", "b">>, parent |-> 4, type |-> "directory"]   \* 20
  >>

Nodes == 1..Len(FsTree)

RECURSIVE PathOf(_)
PathOf(n) ==
  IF FsTree[n].parent = 0 THEN << "/" >> \o FsTree[n].name
  ELSE PathOf(FsTree[n].parent) \o << "/" >> \o FsTree[n].name

\* the node a path names, 0 when the path does not exist
NodeAt(path) ==
  IF \E n \in Nodes : PathOf(n) = path
  THEN CHOOSE n \in Nodes : PathOf(n) = path
  ELSE 0

\* the root directory above a node
RECURSIVE RootOf(_)
RootOf(n) == IF FsTree[n].parent = 0 THEN n ELSE RootOf(FsTree[n].parent)

RECURSIVE IsBeneath(_, _)
IsBeneath(n, d) ==
  FsTree[n].parent # 0 /\ (FsTree[n].parent = d \/ IsBeneath(FsTree[n].parent, d))

\* FileSystemPort.exists
exists(path) == NodeAt(path) # 0

\* a FileSystemEntry, as listEntries returns it
Entry(n) == [name |-> FsTree[n].name, path |-> PathOf(n), type |-> FsTree[n].type]

\* the nodes FileSystemPort.listEntries(PathOf(d)) answers with, in order
Children(d) == SelectSeq([i \in Nodes |-> i], LAMBDA n : FsTree[n].parent = d)

\* FileSystemPort.stat: the modification time of a path
ModifiedAt(n) == 1000 + n

GonePath == <<"/", "G", "o", "n", "e">>

NotionApp ==
  [name |-> <<"N", "o", "t", "i", "o", "n">>,
   bundleId |-> <<"n", "o", "t", "i", "o", "n", ".", "i", "d">>,
   path |-> <<"/", "A", "p", "p", "l", "i", "c", "a", "t", "i", "o", "n", "s", "/", "N", "o", "t", "i", "o", "n", ".", "a", "p", "p">>]

\* what AppDetectionPort.getInstalledApps may answer
AppLists == { << >>, << NotionApp >> }

\* the messages of the errors the ports throw
ErrorOf(op) ==
  [isError |-> TRUE,
   message |-> CASE op = "getSizeInKb" -> "Permission denied"
                 [] op = "stat" -> "ENOENT"
                 [] op = "listEntries" -> "EACCES"]

ScanTargetOf(n, category) ==
  [path |-> PathOf(n), category |-> category, isSystem |-> category = "system"]

\* the target lists scan is called with
TargetLists ==
  { << ScanTargetOf(1, c) >> : c \in {"application-support", "caches", "preferences"} }
  \cup { << ScanTargetOf(2, c) >> : c \in ScanCategory }
  \cup { << ScanTargetOf(3, "caches"),
            [path |-> GonePath, category |-> "preferences", isSystem |-> FALSE],
            ScanTargetOf(4, "launch-items") >>,
         << ScanTargetOf(4, "launch-items"),
            ScanTargetOf(3, "preferences"),
            ScanTargetOf(2, "saved-application-state") >>,
         << [path |-> GonePath, category |-> "system", isSystem |-> TRUE] >> }

\* the nodes a target list can reach
NodesUnder(ts) ==
  { n \in Nodes : \E i \in 1..Len(ts) : PathOf(RootOf(n)) = ts[i].path }

\* the port calls that may be made to fail, and the paths whose size may be
\* below the threshold
FaultSites ==
  { [op |-> "listEntries", node |-> n] : n \in {3, 5, 12} }
  \cup { [op |-> "getSizeInKb", node |-> n] : n \in {6, 9, 17} }
  \cup { [op |-> "stat", node |-> n] : n \in {5, 13, 20} }
SmallSites == {5, 7, 12, 17}

MaxFaults == 1
MaxSmall == 1
MaxConcurrency == 2

DEFAULT_SIZE_THRESHOLD_BYTES == 10 * 1024 * 1024

\* what parseSizeThreshold() returns to the constructor: << >> for undefined
\* (SKIP_ITEMS_SMALLER_THAN unset), or << bytes >> (here that of "20MB")
EnvThresholds == { << >>, << 20 * 1024 * 1024 >> }

\* lines 46-47: envThreshold ?? DEFAULT_SIZE_THRESHOLD_BYTES
thresholdFrom(envThreshold) ==
  IF envThreshold = << >> THEN DEFAULT_SIZE_THRESHOLD_BYTES ELSE envThreshold[1]

\* sizes in kilobytes just below, exactly at and above the default threshold
SizeKbBelow == (DEFAULT_SIZE_THRESHOLD_BYTES \div 1024) - 1
SizeKbNominal(n) ==
  IF n % 2 = 0 THEN DEFAULT_SIZE_THRESHOLD_BYTES \div 1024
  ELSE 2 * (DEFAULT_SIZE_THRESHOLD_BYTES \div 1024)

\* ------------------------------------------------------------------------
\* application/services/scan-service.ts
\* ------------------------------------------------------------------------

VARIABLES
  targets,             \* the targets scan is called with
  appDetection,        \* << >> without an AppDetectionPort, else << its answer >>
  sizeKbOf,            \* DiskUsagePort.getSizeInKb's answer for every node
  faults,              \* the port calls that throw
  sizeThresholdBytes,  \* ScanService.sizeThresholdBytes
  appMatcher,          \* ScanService.appMatcher: << >> for null, else << installedApps >>
  pc,                  \* scan: "idle", "scanning", "resolved" or "rejected"
  concurrency,         \* scan's second argument
  availableTargets,    \* scan's local
  targetIdx,           \* the position of scan's for loop in availableTargets
  items,               \* scan's local
  skipped,             \* scan's local
  report,              \* what scan resolved with
  frame,               \* the invocation of scanTargetRecursive on each directory
  task,                \* where the task of each entry stands
  started,             \* how often runWithConcurrency called each entry's task
  portLog,             \* the port calls made since scan was called
  previous,            \* << >>, or << the set of items of the last scan run with one worker >>
  calc                 \* a call of one of the pure functions: its arguments and result

world == << targets, appDetection, sizeKbOf, faults, sizeThresholdBytes, calc >>
vars == << targets, appDetection, sizeKbOf, faults, sizeThresholdBytes, appMatcher,
           pc, concurrency, availableTargets, targetIdx, items, skipped, report,
           frame, task, started, portLog, previous, calc >>

categoryRisk ==
  [c \in ScanCategory |->
     CASE c = "application-support" -> "medium"
       [] c = "caches" -> "low"
       [] c = "preferences" -> "high"
       [] c = "saved-application-state" -> "low"
       [] c = "containers" -> "medium"
       [] c = "group-containers" -> "medium"
       [] c = "launch-items" -> "high"
       [] c = "system" -> "critical"]

Range(s) == { s[i] : i \in 1..Len(s) }

Call(op, n) == [op |-> op, node |-> n]
Fails(op, n) == Call(op, n) \in faults

\* reasonOf that drops the error's message
reasonOfUnknown(error) == "Unknown error"

\* error instanceof Error ? error.message : 'Unknown error'
reasonOf(error) == IF error.isError THEN error.message ELSE "Unknown error"

skippedEntry(n, op) == [path |-> Entry(n).path, reason |-> reasonOf(ErrorOf(op))]

\* /[Pp]reference[s]?|[Dd]ata$|[Uu]ser\s*[Dd]ata/.test(entry.path)
hasUnsafePattern(entryPath) ==
  \/ RegExpTest(Re(<<Cls({"P", "p"})>> \o Word(<<"r", "e", "f", "e", "r", "e", "n", "c", "e">>)
                   \o <<OptC({"s"})>>, FALSE), entryPath)
  \/ RegExpTest(Re(<<Cls({"D", "d"})>> \o Word(<<"a", "t", "a">>), TRUE), entryPath)
  \/ RegExpTest(Re(<<Cls({"U", "u"})>> \o Word(<<"s", "e", "r">>) \o <<StarC(Whitespace)>>
                   \o <<Cls({"D", "d"})>> \o Word(<<"a", "t", "a">>), FALSE), entryPath)

\* safeToDeleteOf whose override does not look for the unsafe words in the path
safeToDeleteOfUnguarded(entry, target, matcher) ==
  LET depth == calculateDepth(entry.path, target.path)
      safeToDelete == isSafeToDelete(entry.path, entry.name, target.category, depth)
  IN  IF matcher # << >> /\ target.category = SCAN_CATEGORY.APP_SUPPORT
      THEN IF ~match(matcher[1], entry.name).isInstalled /\ ~safeToDelete
           THEN TRUE
           ELSE safeToDelete
      ELSE safeToDelete

\* lines 178-202: the classifier's verdict and the override for orphans
safeToDeleteOf(entry, target, matcher) ==
  LET depth == calculateDepth(entry.path, target.path)
      safeToDelete == isSafeToDelete(entry.path, entry.name, target.category, depth)
  IN  IF matcher # << >> /\ target.category = SCAN_CATEGORY.APP_SUPPORT
      THEN IF ~match(matcher[1], entry.name).isInstalled /\ ~safeToDelete
           THEN (IF ~hasUnsafePattern(entry.path) THEN TRUE ELSE safeToDelete)
           ELSE safeToDelete
      ELSE safeToDelete

\* sizeBytesOf with 1000 bytes to the kilobyte
sizeBytesOfDecimal(sizeKb) == sizeKb * 1000

\* line 159: const sizeBytes = sizeKb * 1024
sizeBytesOf(sizeKb) == sizeKb * 1024

\* lines 175-217: the ScanItem pushed for an entry at or above the threshold
scanItem(n, target, matcher, sizeKb) ==
  LET entry == Entry(n)
      matched == matcher # << >> /\ target.category = SCAN_CATEGORY.APP_SUPPORT
      m == match(matcher[1], entry.name)
  IN  [name |-> entry.name,
       path |-> entry.path,
       category |-> target.category,
       sizeKb |-> sizeKb,
       sizeBytes |-> sizeBytesOf(sizeKb),
       modifiedAt |-> ModifiedAt(n),
       type |-> entry.type,
       riskLevel |-> categoryRisk[target.category],
       safeToDelete |-> safeToDeleteOf(entry, target, matcher),
       parentTargetPath |-> target.path,
       appInstalled |-> IF matched THEN << m.isInstalled >> ELSE << >>,
       matchedAppName |-> IF matched /\ m.matchedApp # 0
                          THEN << matcher[1][m.matchedApp].name >> ELSE << >>]

\* shouldRecurse without the test for leaf cache directories
shouldRecurseIntoLeaf(entry, target, currentDepth) ==
  LET maxDepth == IF target.category = SCAN_CATEGORY.APP_SUPPORT THEN 4 ELSE 3
  IN  /\ currentDepth < maxDepth
      /\ target.category \in {SCAN_CATEGORY.APP_SUPPORT, SCAN_CATEGORY.CONTAINERS,
                              SCAN_CATEGORY.GROUP_CONTAINERS, SCAN_CATEGORY.CACHES}

\* shouldRecurse without the limit on the depth
shouldRecurseUncapped(entry, target, currentDepth) ==
  /\ ~isLeafCacheDirectory(entry.path, entry.name)
  /\ target.category \in {SCAN_CATEGORY.APP_SUPPORT, SCAN_CATEGORY.CONTAINERS,
                          SCAN_CATEGORY.GROUP_CONTAINERS, SCAN_CATEGORY.CACHES}

\* lines 235-244
shouldRecurse(entry, target, currentDepth) ==
  LET isLeafCache == isLeafCacheDirectory(entry.path, entry.name)
      maxDepth == IF target.category = SCAN_CATEGORY.APP_SUPPORT THEN 4 ELSE 3
  IN  /\ currentDepth < maxDepth
      /\ ~isLeafCache
      /\ target.category \in {SCAN_CATEGORY.APP_SUPPORT, SCAN_CATEGORY.CONTAINERS,
                              SCAN_CATEGORY.GROUP_CONTAINERS, SCAN_CATEGORY.CACHES}

\* sumItems adding up the kilobytes instead of the bytes
RECURSIVE sumItemsInKb(_, _)
sumItemsInKb(its, category) ==
  IF its = << >> THEN 0
  ELSE (IF Head(its).category = category THEN Head(its).sizeKb ELSE 0)
       + sumItemsInKb(Tail(its), category)

RECURSIVE sumItems(_, _)
sumItems(its, category) ==
  IF its = << >> THEN 0
  ELSE (IF Head(its).category = category THEN Head(its).sizeBytes ELSE 0)
       + sumItems(Tail(its), category)

sumByCategory(its) == [c \in ScanCategory |-> sumItems(its, c)]

NoReport ==
  [targets |-> << >>, items |-> << >>,
   totalsByCategory |-> [c \in ScanCategory |-> 0], skipped |-> << >>]

scanReport(ts, its, sk) ==
  [targets |-> ts, items |-> its, totalsByCategory |-> sumByCategory(its), skipped |-> sk]

NoCalc == [fn |-> "none", args |-> << >>, result |-> << >>]

NoFrame == [pc |-> "none", currentDepth |-> 0, index |-> 0]
\* scanTargetRecursive called and awaiting listEntries
Listing(currentDepth) == [pc |-> "listing", currentDepth |-> currentDepth, index |-> 0]

\* belowThreshold comparing the kilobytes with the threshold in megabytes
belowThresholdInMegabytes(sizeKb, threshold) == sizeKb < threshold \div (1024 * 1024)

\* line 162: sizeBytes < this.sizeThresholdBytes
belowThreshold(sizeKb, threshold) == sizeKb * 1024 < threshold

\* hasMore that leaves the loop one task early
hasMoreButLast(index, length) == index + 1 < length

\* line 302: while (index < tasks.length)
hasMore(index, length) == index < length

\* workerCount with a worker for every task
workerCountPerTask(limit, length) == length

\* line 301: new Array(Math.min(concurrency, tasks.length))
workerCount(limit, length) == Min(limit, length)

\* nextIndex that does not advance
nextIndexStuck(index) == index

\* line 304: index += 1
nextIndex(index) == index + 1

\* a task whose worker has not gone on yet
Active == {"du", "stat", "recurse", "settled"}

\* taskStart that measures every entry, whatever its type
taskStartAnyType(n) == "du"

\* a task run up to its first await: an entry that is no directory returns at
\* once, a directory has getSizeInKb called
taskStart(n) == IF FsTree[n].type # "directory" THEN "settled" ELSE "du"
startCalls(ns) == { Call("getSizeInKb", n) : n \in { m \in ns : taskStart(m) = "du" } }

Init ==
  /\ targets \in TargetLists
  /\ appDetection \in {<< >>} \cup { << apps >> : apps \in AppLists }
  /\ \E small \in SUBSET (SmallSites \cap NodesUnder(targets)) :
       /\ Cardinality(small) <= MaxSmall
       /\ sizeKbOf = [n \in Nodes |-> IF n \in small THEN SizeKbBelow ELSE SizeKbNominal(n)]
  /\ faults \in { f \in SUBSET { s \in FaultSites : s.node \in NodesUnder(targets) } :
                    Cardinality(f) <= MaxFaults }
  /\ sizeThresholdBytes \in { thresholdFrom(e) : e \in EnvThresholds }
  /\ appMatcher = << >>
  /\ pc = "idle"
  /\ concurrency = 1
  /\ availableTargets = << >>
  /\ targetIdx = 0
  /\ items = << >>
  /\ skipped = << >>
  /\ report = NoReport
  /\ frame = [n \in Nodes |-> NoFrame]
  /\ task = [n \in Nodes |-> "new"]
  /\ started = [n \in Nodes |-> 0]
  /\ portLog = {}
  /\ previous = << >>
  /\ calc = NoCalc

\* the invocation on directory d is over: the for loop of scan goes on to the
\* next target or builds the report (d a target's directory), or the task
\* that awaited the recursion returns (d an entry)
CompleteFrame(d, fr, tk, log) ==
  IF fr[d].currentDepth = 0
  THEN IF targetIdx < Len(availableTargets)
       THEN LET r == NodeAt(availableTargets[targetIdx + 1].path)
            IN  /\ frame' = [fr EXCEPT ![d].pc = "done", ![r] = Listing(0)]
                /\ task' = tk
                /\ targetIdx' = targetIdx + 1
                /\ portLog' = log \cup {Call("listEntries", r)}
                /\ UNCHANGED << pc, report >>
       ELSE /\ frame' = [fr EXCEPT ![d].pc = "done"]
            /\ task' = tk
            /\ pc' = "resolved"
            /\ report' = scanReport(availableTargets, items, skipped)
            /\ portLog' = log
            /\ UNCHANGED targetIdx
  ELSE /\ frame' = [fr EXCEPT ![d].pc = "done"]
       /\ task' = [tk EXCEPT ![d] = "settled"]
       /\ portLog' = log
       /\ UNCHANGED << pc, report, targetIdx >>

\* the sequence in reverse
reversed(s) == [i \in 1..Len(s) |-> s[Len(s) + 1 - i]]

\* filterExistingTargets that puts each existing target in front
filterExistingTargetsInFront(ts) == reversed(SelectSeq(ts, LAMBDA t : exists(t.path)))

\* lines 110-120
filterExistingTargets(ts) == SelectSeq(ts, LAMBDA t : exists(t.path))

\* scan(targets, c), up to the first listEntries of the first target
Scan(c) ==
  /\ pc \in {"idle", "resolved", "rejected"}
  /\ LET existing == filterExistingTargets(targets)
         log == { Call("getInstalledApps", 0) : x \in Range(appDetection) }
                \cup { Call("exists", NodeAt(targets[i].path)) : i \in 1..Len(targets) }
     IN  /\ previous' = IF pc = "resolved" /\ concurrency = 1
                        THEN << Range(report.items) >>
                        ELSE previous
         /\ concurrency' = c
         /\ appMatcher' = IF appDetection # << >> THEN appDetection ELSE appMatcher
         /\ availableTargets' = existing
         /\ items' = << >>
         /\ skipped' = << >>
         /\ started' = [n \in Nodes |-> 0]
         /\ task' = [n \in Nodes |-> "new"]
         /\ IF existing = << >>
            THEN /\ pc' = "resolved"
                 /\ report' = scanReport(existing, << >>, << >>)
                 /\ targetIdx' = 0
                 /\ frame' = [n \in Nodes |-> NoFrame]
                 /\ portLog' = log
            ELSE LET r == NodeAt(existing[1].path)
                 IN  /\ pc' = "scanning"
                     /\ report' = NoReport
                     /\ targetIdx' = 1
                     /\ frame' = [n \in Nodes |-> IF n = r THEN Listing(0) ELSE NoFrame]
                     /\ portLog' = log \cup {Call("listEntries", r)}
  /\ UNCHANGED world

\* listEntries(basePath) returns or throws; on return the tasks are built and
\* runWithConcurrency starts min(concurrency, tasks.length) workers, each of
\* which takes the next index and runs its task up to the task's first await
ListReturn(d) ==
  /\ pc = "scanning"
  /\ frame[d].pc = "listing"
  /\ IF Fails("listEntries", d)
     THEN /\ IF frame[d].currentDepth = 0
             THEN /\ pc' = "rejected"
                  /\ UNCHANGED << task, skipped >>
             ELSE /\ skipped' = Append(skipped, skippedEntry(d, "listEntries"))
                  /\ task' = [task EXCEPT ![d] = "settled"]
                  /\ UNCHANGED pc
          /\ frame' = [frame EXCEPT ![d].pc = "failed"]
          /\ UNCHANGED << report, targetIdx, started, portLog >>
     ELSE LET entries == Children(d)
              workers == workerCount(concurrency, Len(entries))
              first == { entries[i] : i \in 1..workers }
              fr == [frame EXCEPT ![d].pc = "running", ![d].index = workers]
              tk == [n \in Nodes |-> IF n \in first THEN taskStart(n) ELSE task[n]]
              log == portLog \cup startCalls(first)
          IN  /\ started' = [n \in Nodes |-> IF n \in first THEN started[n] + 1 ELSE started[n]]
              /\ UNCHANGED skipped
              /\ IF Len(entries) = 0
                 THEN CompleteFrame(d, fr, tk, log)
                 ELSE /\ frame' = fr
                      /\ task' = tk
                      /\ portLog' = log
                      /\ UNCHANGED << pc, report, targetIdx >>
  /\ UNCHANGED << world, appMatcher, concurrency, availableTargets, items, previous >>

\* afterMeasureCalls that also writes the measured size to a cache file
afterMeasureCallsCaching(n) == {Call("writeFile", n), Call("stat", n)}

\* line 175: the port calls made for an entry measured at or above the
\* threshold
afterMeasureCalls(n) == {Call("stat", n)}

\* getSizeInKb(entry.path) returns or throws: lines 158-175
DuReturn(n) ==
  /\ pc = "scanning"
  /\ task[n] = "du"
  /\ IF Fails("getSizeInKb", n)
     THEN /\ skipped' = Append(skipped, skippedEntry(n, "getSizeInKb"))
          /\ task' = [task EXCEPT ![n] = "settled"]
          /\ UNCHANGED portLog
     ELSE LET sizeKb == sizeKbOf[n]
          IN  IF belowThreshold(sizeKb, sizeThresholdBytes)
              THEN /\ task' = [task EXCEPT ![n] = "settled"]
                   /\ UNCHANGED << skipped, portLog >>
              ELSE /\ task' = [task EXCEPT ![n] = "stat"]
                   /\ portLog' = portLog \cup afterMeasureCalls(n)
                   /\ UNCHANGED skipped
  /\ UNCHANGED << world, appMatcher, pc, concurrency, availableTargets, targetIdx,
                  items, report, frame, started, previous >>

\* pushItem putting the item in front of those recorded
unshiftItem(its, item) == << item >> \o its

\* lines 204-217: items.push({...}), before the recursive call of line 247
pushItem(its, item) == Append(its, item)

\* stat(entry.path) returns or throws: lines 175-259
StatReturn(n) ==
  /\ pc = "scanning"
  /\ task[n] = "stat"
  /\ LET target == availableTargets[targetIdx]
         currentDepth == frame[FsTree[n].parent].currentDepth
     IN  IF Fails("stat", n)
         THEN /\ skipped' = Append(skipped, skippedEntry(n, "stat"))
              /\ task' = [task EXCEPT ![n] = "settled"]
              /\ UNCHANGED << items, frame, portLog >>
         ELSE /\ items' = pushItem(items, scanItem(n, target, appMatcher, sizeKbOf[n]))
              /\ UNCHANGED skipped
              /\ IF shouldRecurse(Entry(n), target, currentDepth) /\ ~(currentDepth + 1 > 4)
                 THEN /\ frame' = [frame EXCEPT ![n] = Listing(currentDepth + 1)]
                      /\ task' = [task EXCEPT ![n] = "recurse"]
                      /\ portLog' = portLog \cup {Call("listEntries", n)}
                 ELSE /\ task' = [task EXCEPT ![n] = "settled"]
                      /\ UNCHANGED << frame, portLog >>
  /\ UNCHANGED << world, appMatcher, pc, concurrency, availableTargets, targetIdx,
                  report, started, previous >>

\* workersPending for a Promise.all that never resolves
workersPendingAlways(entries, n) == TRUE

\* workersPending that does not wait for the other workers
workersPendingNever(entries, n) == FALSE

\* line 312, await Promise.all(workers): apart from the worker leaving after
\* entry n, a worker is still at work on one of the entries
workersPending(entries, n) == \E m \in Range(entries) : m # n /\ task[m] \in Active

\* the worker that awaited the task of entry n goes round its while loop:
\* it takes the next index, or leaves; when the last worker has left,
\* Promise.all resolves and the invocation is over
WorkerResume(n) ==
  /\ pc = "scanning"
  /\ task[n] = "settled"
  /\ LET d == FsTree[n].parent
         entries == Children(d)
         index == frame[d].index
     IN  IF hasMore(index, Len(entries))
         THEN LET current == entries[index + 1]
              IN  /\ frame' = [frame EXCEPT ![d].index = nextIndex(index)]
                  /\ task' = [task EXCEPT ![n] = "done", ![current] = taskStart(current)]
                  /\ started' = [started EXCEPT ![current] = @ + 1]
                  /\ portLog' = portLog \cup startCalls({current})
                  /\ UNCHANGED << pc, report, targetIdx >>
         ELSE LET tk == [task EXCEPT ![n] = "done"]
              IN  /\ UNCHANGED started
                  /\ IF workersPending(entries, n)
                     THEN /\ task' = tk
                          /\ UNCHANGED << frame, portLog, pc, report, targetIdx >>
                     ELSE CompleteFrame(d, frame, tk, portLog)
  /\ UNCHANGED << world, appMatcher, concurrency, availableTargets, items, skipped, previous >>

Next ==
  \/ \E c \in 1..MaxConcurrency : Scan(c)
  \/ \E d \in Nodes : ListReturn(d)
  \/ \E n \in Nodes : DuReturn(n)
  \/ \E n \in Nodes : StatReturn(n)
  \/ \E n \in Nodes : WorkerResume(n)

Spec == Init /\ [][Next]_vars

\* steps that are taken without the caller: listEntries or getSizeInKb
\* returns or throws, or a worker whose task has settled goes on
ScanSteps ==
  \/ \E d \in Nodes : ListReturn(d)
  \/ \E n \in Nodes : DuReturn(n)
  \/ \E n \in Nodes : WorkerResume(n)

\* a call of stat is outstanding
StatPending == pc = "scanning" /\ \E n \in Nodes : task[n] = "stat"

\* a call of stat has returned or thrown
StatReturned == \E n \in Nodes : task[n] = "stat" /\ task'[n] # "stat"

\* Every port call returns or throws in the end and the event loop runs
\* every continuation that is ready. The last conjunct is
\* WF_vars(\E n \in Nodes : StatReturn(n)) written out, with StatPending for
\* ENABLED: StatReturn(n) is enabled exactly when the task of n awaits stat.
SpecLive ==
  /\ Init
  /\ [][Next]_vars
  /\ WF_vars(ScanSteps)
  /\ ([]<>(~StatPending) \/ []<><<StatReturned>>_vars)

\* ------------------------------------------------------------------------
\* The pure functions on their own: a call is drawn with its arguments, then
\* evaluated.
\* ------------------------------------------------------------------------

RuleNames ==
  { <<"C", "a", "c", "h", "e", "s">>,
    <<"P", "r", "e", "f", "e", "r", "e", "n", "c", "e", "s">>,
    <<"T", "e", "m", "p", "o", "r", "a", "r", "y", " ", "D", "a", "t", "a">>,
    <<"n", "o", "t", "e", "s", ".", "d", "b">>,
    <<"C", "a", "c", "h", "e", ".", "d", "b">>,
    <<"M", "y", "A", "p", "p", "D", "a", "t", "a">>,
    <<"S", "e", "r", "v", "i", "c", "e", " ", "W", "o", "r", "k", "e", "r">>,
    <<"P", "l", "u", "g", "i", "n", "s">>,
    <<"Z", "e", "d">>,
    <<"G", "P", "U", "C", "a", "c", "h", "e">>,
    <<"S", "a", "v", "e", "d", " ", "S", "t", "a", "t", "e">>,
    <<"x", ".", "a", "p", "p">> }

RuleParents ==
  { <<"/", "T">>,
    <<"/", "T", "/", "T", "e", "m", "p", "o", "r", "a", "r", "y">>,
    <<"/", "T", "/", "C", "a", "c", "h", "e", ".", "d", "b", "/", "i", "n">>,
    <<"/", "T", "/", "D", "a", "t", "a">> }

MaxRuleDepth == 6

ScanIdle ==
  /\ targets = << >>
  /\ appDetection = << >>
  /\ sizeKbOf = [n \in Nodes |-> SizeKbNominal(n)]
  /\ faults = {}
  /\ sizeThresholdBytes = thresholdFrom(<< >>)
  /\ appMatcher = << >>
  /\ pc = "idle"
  /\ concurrency = 1
  /\ availableTargets = << >>
  /\ targetIdx = 0
  /\ items = << >>
  /\ skipped = << >>
  /\ report = NoReport
  /\ frame = [n \in Nodes |-> NoFrame]
  /\ task = [n \in Nodes |-> "new"]
  /\ started = [n \in Nodes |-> 0]
  /\ portLog = {}
  /\ previous = << >>

InitRules ==
  /\ ScanIdle
  /\ \E name \in RuleNames, parent \in RuleParents, category \in ScanCategory,
        depth \in 0..MaxRuleDepth :
       calc = [fn |-> "isSafeToDelete",
               args |-> << parent \o << "/" >> \o name, name, category, depth >>,
               result |-> << >>]

\* isSafeToDelete(itemPath, itemName, category, depth) is evaluated
Classify ==
  /\ calc.fn = "isSafeToDelete"
  /\ calc.result = << >>
  /\ calc' = [calc EXCEPT !.result =
                << isSafeToDelete(calc.args[1], calc.args[2], calc.args[3], calc.args[4]) >>]
  /\ UNCHANGED << targets, appDetection, sizeKbOf, faults, sizeThresholdBytes, appMatcher,
                  pc, concurrency, availableTargets, targetIdx, items, skipped, report,
                  frame, task, started, portLog, previous >>

\* isLeafCacheDirectory(dirPath, dirName) is evaluated on the same path and name
ClassifyLeaf ==
  /\ calc.fn = "isSafeToDelete"
  /\ calc.result # << >>
  /\ calc' = [fn |-> "isLeafCacheDirectory",
              args |-> << calc.args[1], calc.args[2] >>,
              result |-> << isLeafCacheDirectory(calc.args[1], calc.args[2]) >>]
  /\ UNCHANGED << targets, appDetection, sizeKbOf, faults, sizeThresholdBytes, appMatcher,
                  pc, concurrency, availableTargets, targetIdx, items, skipped, report,
                  frame, task, started, portLog, previous >>

NextRules == Classify \/ ClassifyLeaf

SpecRules == InitRules /\ [][NextRules]_vars

\* ------------------------------------------------------------------------
\* AppMatcher on its own: a matcher is built from a list of installed
\* applications and match is called with a folder name.
\* ------------------------------------------------------------------------

NotionLowerApp ==
  [name |-> <<"n", "o", "t", "i", "o", "n">>,
   bundleId |-> << >>,
   path |-> <<"/", "A", "p", "p", "l", "i", "c", "a", "t", "i", "o", "n", "s", "/", "n", "o", "t", "i", "o", "n", ".", "a", "p", "p">>]

BraveApp ==
  [name |-> <<"B", "r", "a", "v", "e">>,
   bundleId |-> << >>,
   path |-> <<"/", "A", "p", "p", "l", "i", "c", "a", "t", "i", "o", "n", "s", "/", "B", "r", "a", "v", "e", ".", "a", "p", "p">>]

BraveBrowserApp ==
  [name |-> <<"B", "r", "a", "v", "e", " ", "B", "r", "o", "w", "s", "e", "r">>,
   bundleId |-> <<"c", "o", "m", ".", "b", "r", "a", "v", "e", ".", "B", "r", "o", "w", "s", "e", "r">>,
   path |-> <<"/", "A", "p", "p", "l", "i", "c", "a", "t", "i", "o", "n", "s", "/", "B", "r", "a", "v", "e", " ", "B", "r", "o", "w", "s", "e", "r", ".", "a", "p", "p">>]

BreakTimerApp ==
  [name |-> <<"B", "r", "e", "a", "k", "T", "i", "m", "e", "r">>,
   bundleId |-> << >>,
   path |-> <<"/", "A", "p", "p", "l", "i", "c", "a", "t", "i", "o", "n", "s", "/", "B", "r", "e", "a", "k", "T", "i", "m", "e", "r", ".", "a", "p", "p">>]

MatchApps == {NotionApp, NotionLowerApp, BraveApp, BraveBrowserApp, BreakTimerApp}

MaxApps == 2

\* the lists of at most MaxApps applications getInstalledApps may answer with
MatchAppLists ==
  UNION { [1..k -> MatchApps] : k \in 0..MaxApps }

FolderNames ==
  { <<"N", "o", "t", "i", "o", "n">>,
    <<"n", "o", "t", "i", "o", "n", ".", "i", "d">>,
    <<"B", "r", "a", "v", "e", "B", "r", "o", "w", "s", "e", "r", "X">>,
    <<"B", "r", "a", "v", "e", "S", "o", "f", "t", "w", "a", "r", "e">>,
    <<"c", "o", "m", ".", "t", "o", "m", "j", "w", "a", "t", "s", "o", "n", ".", "b", "r", "e", "a", "k", "t", "i", "m", "e", "r", ".", "S", "h", "i", "p", "I", "t">>,
    <<"Z", "e", "d">>,
    << >>,
    <<"-", "_">>,
    <<"i", "d">>,
    <<"B", "r", "a", "v", "e", ".", "i", "d">>,
    <<"N", "O", "T", "I", "O", "N", " ", "A", "P", "P">> }

InitMatch ==
  /\ ScanIdle
  /\ \E installedApps \in MatchAppLists, folderName \in FolderNames :
       calc = [fn |-> "match", args |-> << installedApps, folderName >>, result |-> << >>]

\* new AppMatcher(installedApps).match(folderName) is evaluated
Match ==
  /\ calc.fn = "match"
  /\ calc.result = << >>
  /\ calc' = [calc EXCEPT !.result = << match(calc.args[1], calc.args[2]) >>]
  /\ UNCHANGED << targets, appDetection, sizeKbOf, faults, sizeThresholdBytes, appMatcher,
                  pc, concurrency, availableTargets, targetIdx, items, skipped, report,
                  frame, task, started, portLog, previous >>

NextMatch == Match

SpecMatch == InitMatch /\ [][NextMatch]_vars

\* ------------------------------------------------------------------------
\* application/services/tree-navigation.ts
\*
\* A Map<string, TreeNode> with its nested children maps is kept as one
\* sequence of nodes in the order in which they were created; key is the
\* list of path parts under which a node is reached from the root map, so
\* the children map of a node holds the nodes whose key extends its key by
\* one part, in this order (a Map iterates in insertion order).
\* ------------------------------------------------------------------------

\* runs of "/" collapse into one
RECURSIVE collapseSlashes(_)
collapseSlashes(s) ==
  IF Len(s) < 2 THEN s
  ELSE IF s[1] = "/" /\ s[2] = "/" THEN collapseSlashes(Tail(s))
  ELSE << s[1] >> \o collapseSlashes(Tail(s))

\* path.join(a, b) for paths without "." and ".." segments
pathJoin(a, b) ==
  LET joined == collapseSlashes(a \o << "/" >> \o b)
  IN  IF Len(joined) > 1 /\ joined[Len(joined)] = "/"
      THEN SubSeq(joined, 1, Len(joined) - 1)
      ELSE joined

\* lines 43-52: the node created for the part at index i of an item's parts
newNode(key, currentPath, i) ==
  [key |-> key,
   name |-> key[Len(key)],
   fullPath |-> currentPath,
   sizeBytes |-> 0,
   items |-> << >>,
   isLeaf |-> FALSE,
   depth |-> i,
   appInstalled |-> << >>,
   matchedAppName |-> << >>,
   isOrphaned |-> FALSE]

\* visitNode in which every item beneath a node sets the node's status
visitNodeLastWins(node, item, isLast) ==
  IF isLast
  THEN [node EXCEPT !.items = Append(@, item),
                    !.sizeBytes = @ + item.sizeBytes,
                    !.isLeaf = TRUE,
                    !.appInstalled = item.appInstalled,
                    !.matchedAppName = item.matchedAppName,
                    !.isOrphaned = (item.appInstalled = << FALSE >>)]
  ELSE [node EXCEPT !.sizeBytes = @ + item.sizeBytes,
                    !.appInstalled = item.appInstalled,
                    !.matchedAppName = item.matchedAppName,
                    !.isOrphaned = (item.appInstalled = << FALSE >>)]

\* lines 56-74: what the loop does to the node of one part of an item
visitNode(node, item, isLast) ==
  IF isLast
  THEN [node EXCEPT !.items = Append(@, item),
                    !.sizeBytes = @ + item.sizeBytes,
                    !.isLeaf = TRUE,
                    !.appInstalled = item.appInstalled,
                    !.matchedAppName = item.matchedAppName,
                    !.isOrphaned = (item.appInstalled = << FALSE >>)]
  ELSE LET sized == [node EXCEPT !.sizeBytes = @ + item.sizeBytes]
       IN  IF node.appInstalled = << >> /\ item.appInstalled # << >>
           THEN [sized EXCEPT !.appInstalled = item.appInstalled,
                              !.matchedAppName = item.matchedAppName,
                              !.isOrphaned = (item.appInstalled = << FALSE >>)]
           ELSE sized

\* lines 36-75: the loop over the parts of one item, from the part at i
RECURSIVE addParts(_, _, _, _, _)
addParts(nodes, item, parts, i, currentPath) ==
  IF i > Len(parts) THEN nodes
  ELSE LET key == SubSeq(parts, 1, i)
           nextPath == pathJoin(currentPath, parts[i])
           withNode == IF \E k \in 1..Len(nodes) : nodes[k].key = key
                       THEN nodes
                       ELSE Append(nodes, newNode(key, nextPath, i - 1))
           at == CHOOSE k \in 1..Len(withNode) : withNode[k].key = key
           visited == [withNode EXCEPT ![at] = visitNode(@, item, i = Len(parts))]
       IN  addParts(visited, item, parts, i + 1, nextPath)

\* lines 27-28: the parts of an item's path relative to basePath
relativeParts(itemPath, basePath) ==
  SelectSeq(splitOn(sliceFrom(itemPath, Len(basePath) + 1), "/"),
            LAMBDA p : Len(p) > 0)

\* lines 25-76: the loop over the items, from the item at n
RECURSIVE buildTreeFrom(_, _, _, _)
buildTreeFrom(nodes, itemList, basePath, n) ==
  IF n > Len(itemList) THEN nodes
  ELSE LET item == itemList[n]
           parts == relativeParts(item.path, basePath)
       IN  buildTreeFrom(IF Len(parts) = 0 THEN nodes
                         ELSE addParts(nodes, item, parts, 1, basePath),
                         itemList, basePath, n + 1)

buildTree(itemList, basePath) == buildTreeFrom(<< >>, itemList, basePath, 1)

\* node.children of the node reached under key, the root map for << >>
childrenOf(tree, key) ==
  SelectSeq(tree, LAMBDA n : /\ Len(n.key) = Len(key) + 1
                             /\ SubSeq(n.key, 1, Len(key)) = key)

\* a comparator that orders by size alone
compareNodesBySize(a, b) == b.sizeBytes - a.sizeBytes

\* lines 106-111: the comparator of the sort
compareNodes(a, b) ==
  IF a.isOrphaned /\ ~b.isOrphaned THEN -1
  ELSE IF ~a.isOrphaned /\ b.isOrphaned THEN 1
  ELSE b.sizeBytes - a.sizeBytes

\* Array.prototype.sort is stable: each node is put behind the nodes that
\* the comparator does not order after it
RECURSIVE sortNodes(_)
sortNodes(nodes) ==
  IF Len(nodes) = 0 THEN << >>
  ELSE LET x == nodes[Len(nodes)]
           sorted == sortNodes(SubSeq(nodes, 1, Len(nodes) - 1))
       IN  SelectSeq(sorted, LAMBDA y : compareNodes(y, x) <= 0)
             \o << x >>
             \o SelectSeq(sorted, LAMBDA y : compareNodes(y, x) > 0)

\* lines 105-142; the text of a row's label is left out
RECURSIVE traverse(_, _, _, _, _)
RECURSIVE traverseFrom(_, _, _, _, _, _)
traverseFrom(tree, expandedPaths, sortedNodes, n, currentPath, depth) ==
  IF n > Len(sortedNodes) THEN << >>
  ELSE LET node == sortedNodes[n]
           nodePath == pathJoin(currentPath, node.name)
           isExpanded == nodePath \in expandedPaths
           hasChildren == Len(childrenOf(tree, node.key)) > 0
           row == [value |-> nodePath,
                   sizeBytes |-> node.sizeBytes,
                   depth |-> depth,
                   isExpanded |-> isExpanded,
                   hasChildren |-> hasChildren,
                   isLeaf |-> node.isLeaf,
                   isOrphaned |-> node.isOrphaned,
                   appInstalled |-> node.appInstalled,
                   matchedAppName |-> node.matchedAppName]
       IN  << row >>
             \o (IF isExpanded /\ hasChildren
                 THEN traverse(tree, expandedPaths, node.key, nodePath, depth + 1)
                 ELSE << >>)
             \o traverseFrom(tree, expandedPaths, sortedNodes, n + 1, currentPath, depth)

traverse(tree, expandedPaths, key, currentPath, depth) ==
  traverseFrom(tree, expandedPaths, sortNodes(childrenOf(tree, key)), 1,
               currentPath, depth)

\* lines 97-146
flattenTree(tree, expandedPaths, basePath) ==
  traverse(tree, expandedPaths, << >>, basePath, 0)

\* ------------------------------------------------------------------------
\* The tree functions on their own: buildTree is called with a list of
\* items and a base path, flattenTree with its result and a set of
\* expanded paths.
\* ------------------------------------------------------------------------

BasePath == <<"/", "b", "a", "s", "e">>

RootPath == <<"/">>

TreeBases == { BasePath, RootPath }

TreeItem(itemPath, sizeBytes, appInstalled, matchedAppName) ==
  [path |-> itemPath, sizeBytes |-> sizeBytes,
   appInstalled |-> appInstalled, matchedAppName |-> matchedAppName]

TreeItems ==
  { TreeItem(<<"/", "b", "a", "s", "e", "/", "A", "/", "B">>, 10, << FALSE >>, << >>),
    TreeItem(<<"/", "b", "a", "s", "e", "/", "A", "/", "C">>, 5, << >>, << >>),
    TreeItem(<<"/", "b", "a", "s", "e", "/", "A", "/", "B">>, 5, << TRUE >>, << NotionApp.name >>),
    TreeItem(<<"/", "b", "a", "s", "e", "/", "A">>, 20, << TRUE >>, << NotionApp.name >>),
    TreeItem(<<"/", "b", "a", "s", "e", "/", "D">>, 10, << FALSE >>, << >>),
    TreeItem(<<"/", "b", "a", "s", "e", "/", "E">>, 15, << >>, << >>),
    TreeItem(<<"/", "b", "a", "s", "e">>, 7, << >>, << >>) }

MaxItems == 3

\* the lists of at most MaxItems items, in every order
TreeItemLists ==
  UNION { [1..k -> TreeItems] : k \in 0..MaxItems }

\* the sets of expanded paths the session may hold
ExpandedSets ==
  SUBSET { <<"/", "b", "a", "s", "e", "/", "A">>,
           <<"/", "a", "s", "e">>,
           <<"/", "a", "s", "e", "/", "A">> }

InitTree ==
  /\ ScanIdle
  /\ \E itemList \in TreeItemLists, basePath \in TreeBases :
       calc = [fn |-> "buildTree", args |-> << itemList, basePath >>, result |-> << >>]

\* buildTree(items, basePath) is evaluated
BuildTree ==
  /\ calc.fn = "buildTree"
  /\ calc.result = << >>
  /\ calc' = [calc EXCEPT !.result = << buildTree(calc.args[1], calc.args[2]) >>]
  /\ UNCHANGED << targets, appDetection, sizeKbOf, faults, sizeThresholdBytes, appMatcher,
                  pc, concurrency, availableTargets, targetIdx, items, skipped, report,
                  frame, task, started, portLog, previous >>

\* flattenTree(tree, expandedPaths, basePath) is evaluated on the tree built
FlattenTree ==
  /\ calc.fn = "buildTree"
  /\ calc.result # << >>
  /\ \E expandedPaths \in ExpandedSets :
       calc' = [fn |-> "flattenTree",
                args |-> << calc.result[1], expandedPaths, calc.args[2] >>,
                result |-> << flattenTree(calc.result[1], expandedPaths, calc.args[2]) >>]
  /\ UNCHANGED << targets, appDetection, sizeKbOf, faults, sizeThresholdBytes, appMatcher,
                  pc, concurrency, availableTargets, targetIdx, items, skipped, report,
                  frame, task, started, portLog, previous >>

MaxToggles == 2

\* a toggle that only ever expands
toggleExpandOnly(expandedPaths, folderToToggle) == expandedPaths \cup { folderToToggle }

\* part_004 lines 569-573: the folder chosen is collapsed when it is
\* expanded and expanded when it is not
toggle(expandedPaths, folderToToggle) ==
  IF folderToToggle \in expandedPaths
  THEN expandedPaths \ { folderToToggle }
  ELSE expandedPaths \cup { folderToToggle }

\* part_004 lines 552-557: the folders offered for expanding or collapsing
expandChoices(flatTree) ==
  { flatTree[i].value : i \in { j \in 1..Len(flatTree) : flatTree[j].hasChildren } }

\* the session's loop: one of the folders shown is toggled and the tree is
\* flattened again; toggled lists the folders toggled so far and history the
\* rows shown before each of these toggles
ToggleExpand ==
  /\ calc.fn \in { "flattenTree", "toggle" }
  /\ LET toggled == IF calc.fn = "toggle" THEN calc.toggled ELSE << >>
         history == IF calc.fn = "toggle" THEN calc.history ELSE << >>
     IN  /\ Len(toggled) < MaxToggles
         /\ \E folderToToggle \in expandChoices(calc.result[1]) :
              LET expandedPaths == toggle(calc.args[2], folderToToggle)
              IN  calc' = [fn |-> "toggle",
                           args |-> << calc.args[1], expandedPaths, calc.args[3] >>,
                           result |-> << flattenTree(calc.args[1], expandedPaths, calc.args[3]) >>,
                           toggled |-> Append(toggled, folderToToggle),
                           history |-> Append(history, calc.result[1])]
  /\ UNCHANGED << targets, appDetection, sizeKbOf, faults, sizeThresholdBytes, appMatcher,
                  pc, concurrency, availableTargets, targetIdx, items, skipped, report,
                  frame, task, started, portLog, previous >>

NextTree == BuildTree \/ FlattenTree \/ ToggleExpand

SpecTree == InitTree /\ [][NextTree]_vars

\* ------------------------------------------------------------------------
\* utils/parse-size-threshold.ts and the constructor of ScanService
\*
\* A number of bytes may exceed 2^31: here it is kept as its digits in base
\* 1024, the most significant first, without leading zeros (<< 0 >> for 0),
\* so that 20 MB is << 20, 0, 0 >>.
\* ------------------------------------------------------------------------

\* String.prototype.toUpperCase
toUpperCase(s) == [i \in 1..Len(s) |-> toUpperChar(s[i])]

\* String.prototype.trim
RECURSIVE trim(_)
trim(s) ==
  IF Len(s) = 0 THEN s
  ELSE IF s[1] \in Whitespace THEN trim(Tail(s))
  ELSE IF s[Len(s)] \in Whitespace THEN trim(SubSeq(s, 1, Len(s) - 1))
  ELSE s

\* how many characters of s from position from on are digits (\d+, greedy)
RECURSIVE digitsRun(_, _)
digitsRun(s, from) ==
  IF from <= Len(s) /\ s[from] \in Digits THEN 1 + digitsRun(s, from + 1) ELSE 0

\* how many characters of s from position from on are whitespace (\s*)
RECURSIVE whitespaceRun(_, _)
whitespaceRun(s, from) ==
  IF from <= Len(s) /\ s[from] \in Whitespace THEN 1 + whitespaceRun(s, from + 1) ELSE 0

\* the units of the pattern
SizeUnits == { <<"K", "B">>, <<"M", "B">>, <<"G", "B">>, <<"T", "B">>, <<"B">> }

\* line 15-16: trimmed.match(/^(\d+(?:\.\d+)?)\s*(KB|MB|GB|TB|B)?$/), << >>
\* for null, else the two groups, the second << >> when it took no part
sizePatternMatch(trimmed) ==
  LET whole == digitsRun(trimmed, 1)
      fraction == IF whole + 1 <= Len(trimmed) /\ trimmed[whole + 1] = "."
                  THEN digitsRun(trimmed, whole + 2) ELSE 0
      number == IF fraction > 0 THEN whole + 1 + fraction ELSE whole
      space == whitespaceRun(trimmed, number + 1)
      rest == sliceFrom(trimmed, number + space)
  IN  IF whole > 0 /\ (rest = << >> \/ rest \in SizeUnits)
      THEN << [number |-> SubSeq(trimmed, 1, number),
               unit |-> IF rest = << >> THEN << >> ELSE << rest >>] >>
      ELSE << >>

\* the value of a digit
digitValue(c) ==
  CHOOSE d \in 0..9 : <<"0", "1", "2", "3", "4", "5", "6", "7", "8", "9">>[d + 1] = c

\* the value of a string of digits
RECURSIVE digitsValue(_)
digitsValue(s) ==
  IF Len(s) = 0 THEN 0
  ELSE 10 * digitsValue(SubSeq(s, 1, Len(s) - 1)) + digitValue(s[Len(s)])

RECURSIVE powerOfTen(_)
powerOfTen(n) == IF n = 0 THEN 1 ELSE 10 * powerOfTen(n - 1)

\* a natural number in base 1024
RECURSIVE inBase1024(_)
inBase1024(n) ==
  IF n < 1024 THEN << n >> ELSE Append(inBase1024(n \div 1024), n % 1024)

\* the first k digits in base 1024 of the fraction numerator / denominator
RECURSIVE fractionInBase1024(_, _, _)
fractionInBase1024(numerator, denominator, k) ==
  IF k = 0 THEN << >>
  ELSE << (numerator * 1024) \div denominator >>
         \o fractionInBase1024((numerator * 1024) % denominator, denominator, k - 1)

RECURSIVE withoutLeadingZeros(_)
withoutLeadingZeros(digits) ==
  IF Len(digits) > 1 /\ digits[1] = 0 THEN withoutLeadingZeros(Tail(digits)) ELSE digits

\* lines 29-37: the power of 1024 a unit stands for, B for a unit not listed
multiplierPower(unit) ==
  CASE unit = <<"K", "B">> -> 1
    [] unit = <<"M", "B">> -> 2
    [] unit = <<"G", "B">> -> 3
    [] unit = <<"T", "B">> -> 4
    [] OTHER -> 0

\* a parseSizeThreshold that takes every unit for bytes
floorOfProductInBytes(number, unit) ==
  LET whole == digitsRun(number, 1)
  IN  withoutLeadingZeros(inBase1024(digitsValue(SubSeq(number, 1, whole))))

\* lines 22-39: Math.floor(Number.parseFloat(number) * multiplier)
floorOfProduct(number, unit) ==
  LET whole == digitsRun(number, 1)
      decimals == sliceFrom(number, whole + 1)
  IN  withoutLeadingZeros(
        inBase1024(digitsValue(SubSeq(number, 1, whole)))
          \o fractionInBase1024(digitsValue(decimals), powerOfTen(Len(decimals)),
                                multiplierPower(unit)))

\* lines 6-40; envValue is << >> when the variable is not set and the
\* result is << >> for undefined
parseSizeThreshold(envValue) ==
  IF envValue = << >> \/ envValue[1] = << >> THEN << >>
  ELSE LET trimmed == toUpperCase(trim(envValue[1]))
           match_ == sizePatternMatch(trimmed)
       IN  IF match_ = << >> THEN << >>
           ELSE << floorOfProduct(match_[1].number,
                                  IF match_[1].unit = << >> THEN <<"B">>
                                  ELSE match_[1].unit[1]) >>

\* the texts the value of the variable is made of: space before, a number,
\* space between, a unit, space after
EnvNumbers ==
  { << >>, <<"0">>, <<"1">>, <<"2", "0">>, <<"1", ".", "5">>, <<"1", ".", "3">>,
    <<".", "5">>, <<"1", ".">>, <<"-", "1">>, <<"1", "e", "3">> }

EnvUnits ==
  { << >>, <<"B">>, <<"K", "B">>, <<"M", "B">>, <<"G", "B">>, <<"T", "B">>,
    <<"k", "b">>, <<"M", "b">>, <<"t", "b">>, <<"P", "B">>, <<"K">> }

EnvSpaces == { << >>, <<" ">> }

\* process.env.SKIP_ITEMS_SMALLER_THAN: not set, or one of the texts
EnvValues ==
  { << >> } \cup
  { << before \o number \o between \o unit \o after >> :
      before \in EnvSpaces, number \in EnvNumbers, between \in EnvSpaces,
      unit \in EnvUnits, after \in EnvSpaces }

InitThreshold ==
  /\ ScanIdle
  /\ \E envValue \in EnvValues :
       calc = [fn |-> "parseSizeThreshold", args |-> << envValue >>, result |-> << >>]

\* parseSizeThreshold() is evaluated
ParseThreshold ==
  /\ calc.fn = "parseSizeThreshold"
  /\ calc.result = << >>
  /\ calc' = [calc EXCEPT !.result = << parseSizeThreshold(calc.args[1]) >>]
  /\ UNCHANGED << targets, appDetection, sizeKbOf, faults, sizeThresholdBytes, appMatcher,
                  pc, concurrency, availableTargets, targetIdx, items, skipped, report,
                  frame, task, started, portLog, previous >>

\* the constructor of ScanService, lines 45-47: the result is its
\* sizeThresholdBytes, in base 1024
Construct ==
  /\ calc.fn = "parseSizeThreshold"
  /\ calc.result # << >>
  /\ LET envThreshold == calc.result[1]
     IN  calc' = [fn |-> "constructor",
                  args |-> calc.args,
                  result |-> << IF envThreshold = << >>
                                THEN inBase1024(thresholdFrom(envThreshold))
                                ELSE thresholdFrom(envThreshold) >>]
  /\ UNCHANGED << targets, appDetection, sizeKbOf, faults, sizeThresholdBytes, appMatcher,
                  pc, concurrency, availableTargets, targetIdx, items, skipped, report,
                  frame, task, started, portLog, previous >>

NextThreshold == ParseThreshold \/ Construct

SpecThreshold == InitThreshold /\ [][NextThreshold]_vars

\* ------------------------------------------------------------------------
\* Properties
\* ------------------------------------------------------------------------

IsEntry(n) == FsTree[n].parent # 0
ItemAt(n) == \E i \in 1..Len(items) : items[i].path = PathOf(n)
SkippedAt(n) == \E i \in 1..Len(skipped) : skipped[i].path = PathOf(n)
Called(op, n) == Call(op, n) \in portLog
AtOrAbove(n) == sizeKbOf[n] * 1024 >= sizeThresholdBytes
Settled(n) == task[n] \in {"settled", "done"}

\* C1: an entry whose measured size is below the threshold is never an item,
\* is never stat-ed, never listed (nor is anything beneath it measured,
\* stat-ed or listed), and is not in skipped; every item is at or above the
\* threshold.
C1_Pruning ==
  /\ \A n \in Nodes :
       (IsEntry(n) /\ ~Fails("getSizeInKb", n) /\ ~AtOrAbove(n)) =>
         /\ ~ItemAt(n)
         /\ ~SkippedAt(n)
         /\ ~Called("stat", n)
         /\ ~Called("listEntries", n)
         /\ \A m \in Nodes :
              IsBeneath(m, n) =>
                /\ ~Called("listEntries", m) /\ ~Called("getSizeInKb", m)
                /\ ~Called("stat", m) /\ ~ItemAt(m)
  /\ \A i \in 1..Len(items) : items[i].sizeBytes >= sizeThresholdBytes

\* a scan has finished in which an entry measured below the threshold has a
\* child at or above it, next to recorded items
C1_Witness ==
  /\ pc = "resolved"
  /\ items # << >>
  /\ \E n \in Nodes :
       /\ IsEntry(n) /\ Called("getSizeInKb", n) /\ ~Fails("getSizeInKb", n)
       /\ ~AtOrAbove(n) /\ Settled(n)
       /\ \E m \in Nodes : FsTree[m].parent = n /\ AtOrAbove(m)

\* the port call that failed for an entry whose task has ended, "" if none
FailedOp(n) ==
  IF Called("getSizeInKb", n) /\ Fails("getSizeInKb", n) THEN "getSizeInKb"
  ELSE IF Called("stat", n) /\ Fails("stat", n) THEN "stat"
  ELSE ""

\* C2: when getSizeInKb or stat fails for an entry, the entry is in skipped
\* with the error's message as reason; every sibling directory at or above
\* the threshold (whose own calls succeed) is an item once the directory is
\* done; and the scan does not reject because of it: a scan rejects only on
\* the listing of a target's own directory.
C2_EntryFailureIsolation ==
  /\ \A n \in Nodes :
       (IsEntry(n) /\ Settled(n) /\ FailedOp(n) # "") =>
         /\ [path |-> PathOf(n), reason |-> ErrorOf(FailedOp(n)).message] \in Range(skipped)
         /\ ~ItemAt(n)
         /\ \A s \in Nodes :
              ( /\ s # n /\ FsTree[s].parent = FsTree[n].parent
                /\ FsTree[s].type = "directory" /\ AtOrAbove(s)
                /\ ~Fails("getSizeInKb", s) /\ ~Fails("stat", s)
                /\ frame[FsTree[n].parent].pc = "done" ) => ItemAt(s)
  /\ pc = "rejected" =>
       /\ frame[NodeAt(availableTargets[targetIdx].path)].pc = "failed"
       /\ \A n \in Nodes : IsEntry(n) => task[n] \notin Active

\* a scan resolved although an entry's sizing or stat failed, with a sibling
\* of the failed entry among the items
C2_Witness ==
  /\ pc = "resolved"
  /\ concurrency > 1
  /\ \E n \in Nodes :
       /\ IsEntry(n) /\ FailedOp(n) # "" /\ SkippedAt(n)
       /\ \E s \in Nodes : s # n /\ FsTree[s].parent = FsTree[n].parent /\ ItemAt(s)

\* C3: when listing a target's own directory fails, only that target is
\* aborted: the scan does not reject (it goes on to the other targets and
\* returns a report).
C3_TargetFailureIsolation ==
  \A d \in Nodes :
    (frame[d].pc = "failed" /\ frame[d].currentDepth = 0) => pc # "rejected"

\* C4: every task is started exactly once (never twice; once the pool of a
\* directory has resolved, every entry's task has been started and has
\* finished), and a scan resolves only with every pool resolved.
C4_ExactlyOnce ==
  /\ \A n \in Nodes : started[n] <= 1
  /\ \A d \in Nodes :
       frame[d].pc = "done" =>
         \A i \in 1..Len(Children(d)) :
           started[Children(d)[i]] = 1 /\ task[Children(d)[i]] = "done"
  /\ \A n \in Nodes : (IsEntry(n) /\ task[n] # "new") => started[n] = 1
  /\ pc = "resolved" => \A d \in Nodes : frame[d].pc \in {"none", "done", "failed"}

\* a pool with more tasks than workers and a nested pool with no more tasks
\* than workers have both resolved
C4_Witness ==
  /\ pc = "resolved"
  /\ concurrency > 1
  /\ \E d, e \in Nodes :
       /\ frame[d].pc = "done" /\ Len(Children(d)) > concurrency
       /\ frame[e].pc = "done" /\ IsBeneath(e, d) /\ Len(Children(e)) <= concurrency
       /\ Len(Children(e)) > 0

\* C5: a scan with any concurrency yields the same set of items as the scan
\* with concurrency 1 did on the same world, whatever the interleaving.
C5_ConcurrencyIndependence ==
  (pc = "resolved" /\ previous # << >>) => Range(report.items) = previous[1]

\* a scan with several workers resolved after one with a single worker, and
\* its first item is not the first entry's
C5_Witness ==
  /\ pc = "resolved"
  /\ previous # << >>
  /\ concurrency > 1
  /\ Len(report.items) >= 4
  /\ \E n \in Nodes : ItemAt(n) /\ n # NodeAt(report.items[1].path)
                      /\ FsTree[n].parent = FsTree[NodeAt(report.items[1].path)].parent
                      /\ n < NodeAt(report.items[1].path)

installedPerMatcher(name) ==
  IF appMatcher = << >> THEN FALSE ELSE match(appMatcher[1], name).isInstalled

\* C6: in every report an item's safeToDelete is the classifier's verdict, or
\* true by the override (application-support, a matcher, the name not
\* installed, no unsafe word in the path); so without the override's
\* conditions it is the verdict unchanged.
C6_SafeToDelete ==
  pc = "resolved" =>
    \A i \in 1..Len(report.items) :
      LET it == report.items[i]
          verdict == isSafeToDelete(it.path, it.name, it.category,
                                    calculateDepth(it.path, it.parentTargetPath))
          override == /\ it.category = "application-support"
                      /\ appMatcher # << >>
                      /\ ~hasUnsafePattern(it.path)
                      /\ ~installedPerMatcher(it.name)
      IN  IF verdict THEN it.safeToDelete
          ELSE IF override THEN it.safeToDelete
          ELSE ~it.safeToDelete

\* the items hold one forced safe by the override, one the override leaves
\* unsafe for its path, and one of an installed application
C6_Witness ==
  /\ appMatcher # << >>
  /\ \E i, j, k \in 1..Len(items) :
       /\ items[i].category = "application-support"
       /\ items[i].safeToDelete /\ items[i].appInstalled = << FALSE >>
       /\ ~isSafeToDelete(items[i].path, items[i].name, items[i].category,
                          calculateDepth(items[i].path, items[i].parentTargetPath))
       /\ ~items[j].safeToDelete /\ items[j].appInstalled = << FALSE >>
       /\ ~items[k].safeToDelete /\ items[k].appInstalled = << TRUE >>

\* the classifier's verdict for preferences and launch-items on every name,
\* parent and depth of the rule inputs
ClassifierNeverSafe ==
  \A name \in RuleNames, parent \in RuleParents, depth \in 0..MaxRuleDepth :
    \A category \in {"preferences", "launch-items"} :
      ~isSafeToDelete(parent \o << "/" >> \o name, name, category, depth)

\* C7: the classifier is false for preferences and launch-items whatever
\* the path, name and depth; and no item of category preferences or
\* launch-items is safe to delete, with or without a matcher.
C7_NeverSafe ==
  /\ ClassifierNeverSafe
  /\ \A i \in 1..Len(items) :
       items[i].category \in {"preferences", "launch-items"} =>
         /\ ~items[i].safeToDelete
         /\ ~isSafeToDelete(items[i].path, items[i].name, items[i].category,
                            calculateDepth(items[i].path, items[i].parentTargetPath))

\* with a matcher active, a preferences item whose name matches a safe
\* pattern and a launch-items item have been recorded
C7_Witness ==
  /\ appMatcher # << >>
  /\ \E i, j \in 1..Len(items) :
       /\ items[i].category = "preferences"
       /\ anyPatternMatches(SAFE_DELETE_PATTERNS, 1, items[i].path, items[i].name)
       /\ items[j].category = "launch-items"

\* whether one of the patterns matches the path or the name
MatchesOneOf(patterns, itemPath, itemName) ==
  \E i \in 1..Len(patterns) :
    RegExpTest(patterns[i], itemPath) \/ RegExpTest(patterns[i], itemName)

\* a path ending in .db that holds neither cache.db nor Cache.db
PlainDatabase(itemPath) ==
  /\ Len(itemPath) >= 3
  /\ SubSeq(itemPath, Len(itemPath) - 2, Len(itemPath)) = <<".", "d", "b">>
  /\ ~includes(itemPath, <<"c", "a", "c", "h", "e", ".", "d", "b">>)
  /\ ~includes(itemPath, <<"C", "a", "c", "h", "e", ".", "d", "b">>)

RECURSIVE LevelOf(_)
LevelOf(n) ==
  IF FsTree[n].parent = 0 \/ FsTree[FsTree[n].parent].parent = 0 THEN 0
  ELSE 1 + LevelOf(FsTree[n].parent)

RecursingCategories == {"application-support", "containers", "group-containers", "caches"}
DepthCap(category) == IF category = "application-support" THEN 4 ELSE 3
\* the directories isLeafCacheDirectory holds of
LeafCacheNodes == { n \in Nodes : isLeafCacheDirectory(PathOf(n), FsTree[n].name) }
IsLeafCache(n) == n \in LeafCacheNodes

\* the children of a recorded entry are listed exactly when the depth is
\* below the cap, the entry is no leaf cache directory and the category
\* recurses
ListedIffRule ==
  \A i \in 1..Len(items) :
    LET n == NodeAt(items[i].path)
    IN  Called("listEntries", n) <=>
          /\ LevelOf(n) < DepthCap(items[i].category)
          /\ ~IsLeafCache(n)
          /\ items[i].category \in RecursingCategories

\* the items of a category that does not recurse are entries of the target's
\* own directory
FlatCategories ==
  \A i \in 1..Len(items) :
    items[i].category \notin RecursingCategories =>
      FsTree[NodeAt(items[i].path)].parent = NodeAt(items[i].parentTargetPath)

\* C9 as stated: the recursion rule, hence no item lies beneath a leaf cache
\* directory (any directory isLeafCacheDirectory holds of), and the
\* categories that do not recurse yield first-level items only.
C9_Original ==
  /\ ListedIffRule
  /\ \A i \in 1..Len(items) : \A d \in Nodes :
       IsLeafCache(d) => ~IsBeneath(NodeAt(items[i].path), d)
  /\ FlatCategories

\* C9 amended: the recursion rule, hence no item lies beneath an entry of its
\* target that is a leaf cache directory (the target's own directory is
\* listed whatever its name), and the categories that do not recurse yield
\* first-level items only.
C9_RecursionRule ==
  /\ ListedIffRule
  /\ \A i \in 1..Len(items) : \A d \in Nodes :
       ( /\ IsEntry(d) /\ RootOf(d) = NodeAt(items[i].parentTargetPath)
         /\ IsLeafCache(d) ) => ~IsBeneath(NodeAt(items[i].path), d)
  /\ FlatCategories

\* a scan resolved in which a leaf cache directory with a child at or above
\* the threshold was recorded and not listed, next to a recorded entry that
\* was listed
C9_Witness ==
  /\ pc = "resolved"
  /\ \E n, m \in Nodes :
       /\ ItemAt(n) /\ IsLeafCache(n) /\ ~Called("listEntries", n)
       /\ \E c \in Nodes : FsTree[c].parent = n /\ AtOrAbove(c)
                           /\ FsTree[c].type = "directory"
       /\ ItemAt(m) /\ Called("listEntries", m)

\* C10 as stated: an entry that is no directory is never listed, but it is
\* measured and, at or above the threshold, recorded with its own type.
C10_Original ==
  \A n \in Nodes :
    (IsEntry(n) /\ FsTree[n].type # "directory" /\ task[n] = "done") =>
      /\ ~Called("listEntries", n)
      /\ Called("getSizeInKb", n)
      /\ AtOrAbove(n) =>
           \E i \in 1..Len(items) :
             items[i].path = PathOf(n) /\ items[i].type = FsTree[n].type

\* C10 amended: an entry that is no directory is never listed, measured or
\* stat-ed and is neither recorded nor skipped; every item is a directory.
C10_NonDirectoryEntries ==
  /\ \A n \in Nodes :
       (IsEntry(n) /\ FsTree[n].type # "directory") =>
         /\ ~Called("listEntries", n)
         /\ ~Called("getSizeInKb", n)
         /\ ~Called("stat", n)
         /\ ~ItemAt(n)
         /\ ~SkippedAt(n)
  /\ \A i \in 1..Len(items) : items[i].type = "directory"

\* a scan resolved in which the task of an entry that is no directory, of a
\* size at or above the threshold, has run next to a recorded sibling
C10_Witness ==
  /\ pc = "resolved"
  /\ \E n, s \in Nodes :
       /\ IsEntry(n) /\ FsTree[n].type # "directory"
       /\ started[n] = 1 /\ task[n] = "done" /\ AtOrAbove(n)
       /\ s # n /\ FsTree[s].parent = FsTree[n].parent /\ ItemAt(s)

\* the sum of sizeBytes over the items at the positions in S
RECURSIVE SizeOfPositions(_, _)
SizeOfPositions(its, S) ==
  IF S = {} THEN 0
  ELSE LET i == CHOOSE j \in S : TRUE
       IN  its[i].sizeBytes + SizeOfPositions(its, S \ {i})

\* the sum of the values of a function with a finite domain
RECURSIVE SumOfValues(_, _)
SumOfValues(f, D) ==
  IF D = {} THEN 0
  ELSE LET k == CHOOSE j \in D : TRUE
       IN  f[k] + SumOfValues(f, D \ {k})

\* C11: in every report totalsByCategory has the 8 category keys, each value
\* is the sum of sizeBytes over the report's items of that category (0 when
\* there is none), and the 8 values add up to the sum of sizeBytes over all
\* items.
C11_Totals ==
  pc = "resolved" =>
    LET its == report.items
        totals == report.totalsByCategory
    IN  /\ DOMAIN totals = ScanCategory
        /\ Cardinality(DOMAIN totals) = 8
        /\ \A c \in ScanCategory :
             totals[c] = SizeOfPositions(its, { i \in 1..Len(its) : its[i].category = c })
        /\ SumOfValues(totals, DOMAIN totals) = SizeOfPositions(its, 1..Len(its))

\* a report with three items of three categories and different sizes, so
\* that five categories have a total of 0
C11_Witness ==
  /\ pc = "resolved"
  /\ \E i, j, k \in 1..Len(report.items) :
       /\ report.items[i].category # report.items[j].category
       /\ report.items[k].category \notin {report.items[i].category, report.items[j].category}
       /\ report.items[i].sizeBytes # report.items[j].sizeBytes
  /\ Cardinality({ c \in ScanCategory : report.totalsByCategory[c] = 0 }) = 5

\* the targets among ts whose path is in the tree, in the order of ts
RECURSIVE PresentInOrder(_)
PresentInOrder(ts) ==
  IF ts = << >> THEN << >>
  ELSE (IF \E n \in Nodes : PathOf(n) = Head(ts).path THEN << Head(ts) >> ELSE << >>)
       \o PresentInOrder(Tail(ts))

\* the path is the missing target's or lies beneath it
AtMissing(ts, path) ==
  \E i \in 1..Len(ts) :
    /\ \A n \in Nodes : PathOf(n) # ts[i].path
    /\ path = ts[i].path \/ startsWith(path, ts[i].path \o << "/" >>)

\* C12: a target whose path does not exist is left out and is not fatal: the
\* targets scanned, and those of the report, are the input targets that
\* exist, in input order; no item and no skipped entry is at or beneath a
\* missing target or has it as parentTargetPath; no listEntries, getSizeInKb
\* or stat call is made for it; and a scan rejects only on the listing of an
\* existing target's directory.
C12_MissingTargets ==
  pc # "idle" =>
    /\ availableTargets = PresentInOrder(targets)
    /\ pc = "resolved" => report.targets = PresentInOrder(targets)
    /\ \A i \in 1..Len(items) :
         ~AtMissing(targets, items[i].path) /\ ~AtMissing(targets, items[i].parentTargetPath)
    /\ \A i \in 1..Len(skipped) : ~AtMissing(targets, skipped[i].path)
    /\ \A c \in portLog : c.op \in {"listEntries", "getSizeInKb", "stat"} => c.node \in Nodes
    /\ pc = "rejected" =>
         \E d \in Nodes : FsTree[d].parent = 0 /\ Called("listEntries", d)
                          /\ Fails("listEntries", d)

\* a scan of targets with a missing one between two existing ones resolved
\* with the two existing targets, in order, and items of both
C12_Witness ==
  /\ pc = "resolved"
  /\ Len(targets) = 3 /\ Len(report.targets) = 2
  /\ Called("exists", 0)
  /\ report.targets = << targets[1], targets[3] >>
  /\ \E i, j \in 1..Len(report.items) :
       /\ report.items[i].parentTargetPath = targets[1].path
       /\ report.items[j].parentTargetPath = targets[3].path

\* a listEntries, getSizeInKb or stat call has been made in the traversal
\* of the target whose directory is r
TraversalBegun(r) ==
  \E c \in portLog :
    /\ c.op \in {"listEntries", "getSizeInKb", "stat"}
    /\ c.node \in Nodes /\ RootOf(c.node) = r

\* every invocation and every task of the traversal of the target whose
\* directory is r is over
TraversalOver(r) ==
  /\ frame[r].pc = "done"
  /\ \A n \in Nodes :
       (IsEntry(n) /\ RootOf(n) = r) =>
         /\ task[n] \in {"new", "done"}
         /\ frame[n].pc \in {"none", "done", "failed"}
         /\ FsTree[n].parent = r => task[n] = "done"

Measuring == { n \in Nodes : task[n] = "du" }

\* C14 as stated: at no moment of a scan are more than `concurrency`
\* getSizeInKb calls outstanding, also while workers recurse.
C14_Original == Cardinality(Measuring) <= concurrency

\* C14 amended: among the entries of any one directory at most `concurrency`
\* tasks are under way, so at most `concurrency` getSizeInKb calls are
\* outstanding per directory being processed (each nested invocation has a
\* pool of its own, so the total over all of them may be larger).
C14_PerDirectoryCap ==
  \A d \in Nodes :
    /\ Cardinality({ n \in Measuring : FsTree[n].parent = d }) <= concurrency
    /\ Cardinality({ n \in Nodes : FsTree[n].parent = d /\ task[n] \in Active })
         <= concurrency

\* with two workers, a directory has two getSizeInKb calls outstanding and
\* an entry not started yet
C14_Witness ==
  /\ pc = "scanning"
  /\ concurrency = 2
  /\ \E d \in Nodes :
       /\ Cardinality({ n \in Measuring : FsTree[n].parent = d }) = concurrency
       /\ frame[d].index < Len(Children(d))

\* the operations of the ports that read only
ReadOnlyOps == {"exists", "listEntries", "stat", "getSizeInKb", "getInstalledApps"}

\* C15: during a scan, resolved or rejected, only exists, listEntries, stat,
\* getSizeInKb and getInstalledApps are called, never ensureDirectory,
\* writeFile or a deletion: the tree, which changes through these only, is
\* as it was.
C15_ReadOnly == \A c \in portLog : c.op \in ReadOnlyOps

\* a scan rejected after each of the five reading operations was called
C15_Witness ==
  /\ pc = "rejected"
  /\ items # << >>
  /\ { c.op : c \in portLog } = ReadOnlyOps

\* a name in lower case with only its letters and digits kept
Normalized(name) ==
  SelectSeq(toLowerCase(name),
            LAMBDA c : c \in Digits \/ \E k \in 1..Len(Lower) : Lower[k] = c)

\* whether the app matches the folder name by strategy k of the eight
StrategyHit(k, app, folderName) ==
  CASE k = 1 -> Normalized(app.name) = Normalized(folderName)
    [] k = 2 -> app.bundleId # << >> /\ toLowerCase(app.bundleId) = Normalized(folderName)
    [] k = 3 -> includes(toLowerCase(folderName), toLowerCase(app.name))
    [] k = 4 -> LET words == appNameWords(app.name)
                IN  /\ words # << >>
                    /\ \A w \in 1..Len(words) :
                         wordRegexTest(words[w], toLowerCase(folderName))
    [] k = 5 -> /\ includes(Normalized(folderName), Normalized(app.name))
                /\ Len(Normalized(app.name)) >= 4
    [] k = 6 -> /\ app.bundleId # << >>
                /\ matchesByBundleId(toLowerCase(app.bundleId), folderName)
    [] k = 7 -> matchesByOverlap(Normalized(app.name), folderName)
    [] k = 8 -> matchesByVariation(app, folderName)

\* the strategies tried in one step: 3, 4 and 5 are tried together
StrategyGroups == << {1}, {2}, {3, 4, 5}, {6}, {7}, {8} >>

GroupHit(g, app, folderName) ==
  \E k \in StrategyGroups[g] : StrategyHit(k, app, folderName)

MatchDone == calc.fn = "match" /\ calc.result # << >>

\* C16 as stated: the strategies are tried in order over the whole list:
\* when some app matches by strategy k and none by a strategy before k, the
\* matched app matches by strategy k.
C16_Original ==
  MatchDone =>
    LET installedApps == calc.args[1]
        folderName == calc.args[2]
        r == calc.result[1]
    IN  \A k \in 1..8 :
          ( /\ \E i \in 1..Len(installedApps) : StrategyHit(k, installedApps[i], folderName)
            /\ \A j \in 1..(k - 1) : \A i \in 1..Len(installedApps) :
                 ~StrategyHit(j, installedApps[i], folderName) ) =>
            /\ r.matchedApp # 0
            /\ StrategyHit(k, installedApps[r.matchedApp], folderName)

\* C16 amended: the steps are tried in order over the whole list, with
\* strategies 3, 4 and 5 as one step that tries the three on each app in
\* list order: when some app matches by a step and none by a step before
\* it, the matched app matches by that step, and for the step of strategies
\* 3 to 5 it is the first app of the list matching by any of the three.
C16_StrategyOrder ==
  MatchDone =>
    LET installedApps == calc.args[1]
        folderName == calc.args[2]
        r == calc.result[1]
    IN  \A g \in 1..Len(StrategyGroups) :
          ( /\ \E i \in 1..Len(installedApps) : GroupHit(g, installedApps[i], folderName)
            /\ \A h \in 1..(g - 1) : \A i \in 1..Len(installedApps) :
                 ~GroupHit(h, installedApps[i], folderName) ) =>
            /\ r.isInstalled
            /\ r.matchedApp # 0
            /\ GroupHit(g, installedApps[r.matchedApp], folderName)
            /\ g = 3 => \A i \in 1..(r.matchedApp - 1) :
                          ~GroupHit(3, installedApps[i], folderName)

\* an app matching by literal containment won although another app of the
\* list matches by the bundle id only
C16_Witness ==
  /\ MatchDone
  /\ calc.result[1].matchedApp # 0
  /\ LET installedApps == calc.args[1]
         folderName == calc.args[2]
         won == calc.result[1].matchedApp
     IN  /\ StrategyHit(3, installedApps[won], folderName)
         /\ \A i \in 1..Len(installedApps) : ~StrategyHit(1, installedApps[i], folderName)
         /\ \E i \in 1..(won - 1) :
              /\ StrategyHit(6, installedApps[i], folderName)
              /\ ~GroupHit(3, installedApps[i], folderName)

\* C17: when the normalized folder name equals the normalized name of some
\* installed app, match answers installed, 'exact-name', and the first app of
\* the list with that normalized name.
C17_ExactName ==
  MatchDone =>
    LET installedApps == calc.args[1]
        folderName == calc.args[2]
        same == { i \in 1..Len(installedApps) :
                    Normalized(installedApps[i].name) = Normalized(folderName) }
    IN  same # {} =>
          calc.result[1] = [isInstalled |-> TRUE,
                            matchedApp |-> CHOOSE i \in same : \A j \in same : i <= j,
                            matchType |-> "exact-name"]

\* two apps of the list have the folder's normalized name, the second of
\* them spelt as the folder is, and the first one is matched
C17_Witness ==
  /\ MatchDone
  /\ Len(calc.args[1]) = 2
  /\ calc.args[1][1].name # calc.args[1][2].name
  /\ calc.args[1][2].name = calc.args[2]
  /\ Normalized(calc.args[1][1].name) = Normalized(calc.args[2])
  /\ calc.result[1].matchedApp = 1
  /\ calc.result[1].matchType = "exact-name"

\* C18: with no installed app, match answers not installed, no app and
\* 'none' for every folder name, the empty one too.
C18_EmptyAppList ==
  (MatchDone /\ calc.args[1] = << >>) =>
    calc.result[1] = [isInstalled |-> FALSE, matchedApp |-> 0, matchType |-> "none"]

\* the empty folder name has been matched against no app
C18_Witness ==
  /\ MatchDone
  /\ calc.args[1] = << >>
  /\ calc.args[2] = << >>
  /\ ~calc.result[1].isInstalled

\* the sum of sizeBytes over a sequence of items
RECURSIVE SumOfSizes(_)
SumOfSizes(its) ==
  IF Len(its) = 0 THEN 0 ELSE its[1].sizeBytes + SumOfSizes(Tail(its))

\* the items whose path is p or lies beneath p
AtOrBeneath(its, p) ==
  SelectSeq(its, LAMBDA it : it.path = p \/ startsWith(it.path, p \o << "/" >>))

TreeBuilt == calc.fn = "buildTree" /\ calc.result # << >>

\* C19: for every node of the tree built from a list of items, in any
\* order, sizeBytes is the sum of sizeBytes of the items given whose path
\* is the node's path or lies beneath it.
C19_TreeSizes ==
  TreeBuilt =>
    \A k \in 1..Len(calc.result[1]) :
      calc.result[1][k].sizeBytes
        = SumOfSizes(AtOrBeneath(calc.args[1], calc.result[1][k].fullPath))

\* the path above p: p without its last segment
ParentPath(p) ==
  LET last == CHOOSE i \in 1..Len(p) :
                p[i] = "/" /\ \A k \in (i + 1)..Len(p) : p[k] # "/"
  IN  IF last = 1 THEN << "/" >> ELSE SubSeq(p, 1, last - 1)

Flattened == calc.fn = "flattenTree" /\ calc.result # << >>

\* the rows at i and j are rows of children of one parent, or both of roots
SiblingRows(rows, i, j) ==
  /\ rows[i].depth = rows[j].depth
  /\ ParentPath(rows[i].value) = ParentPath(rows[j].value)

\* C20: among the rows of the children of one parent, and among the rows
\* of the roots, every orphaned node comes before every node that is not
\* orphaned and, among nodes of the same orphan status, sizes do not
\* increase; the row of a node comes before the rows of its children, with
\* only rows of its descendants in between (depth-first).
C20_SiblingOrder ==
  Flattened =>
    LET rows == calc.result[1]
    IN  /\ \A i, j \in 1..Len(rows) :
             i < j /\ SiblingRows(rows, i, j) =>
               /\ rows[j].isOrphaned => rows[i].isOrphaned
               /\ rows[i].isOrphaned = rows[j].isOrphaned
                    => rows[i].sizeBytes >= rows[j].sizeBytes
        /\ \A j \in 1..Len(rows) :
             rows[j].depth > 0 =>
               \E i \in 1..(j - 1) :
                 /\ rows[i].value = ParentPath(rows[j].value)
                 /\ rows[i].depth = rows[j].depth - 1
                 /\ \A m \in (i + 1)..j : rows[m].depth > rows[i].depth

\* a flattened tree whose roots are an orphaned node and two others of
\* different sizes, put first by the sort though not created first, with the
\* row of a child
C20_Witness ==
  /\ Flattened
  /\ LET rows == calc.result[1]
         tree == calc.args[1]
     IN  /\ Len(rows) > 0
         /\ Len(tree) > 0
         /\ rows[1].value # tree[1].fullPath
         /\ \E i, j, k \in 1..Len(rows) :
              /\ i < j /\ j < k
              /\ SiblingRows(rows, i, j) /\ SiblingRows(rows, j, k)
              /\ rows[i].isOrphaned /\ ~rows[j].isOrphaned /\ ~rows[k].isOrphaned
              /\ rows[i].sizeBytes < rows[j].sizeBytes
              /\ rows[j].sizeBytes > rows[k].sizeBytes
         /\ \E c \in 1..Len(rows) : rows[c].depth = 1

\* the rows of a flattened tree are shown
Shown == calc.fn \in { "flattenTree", "toggle" }

\* the paths of the rows, in order
RowValues(rows) == [i \in 1..Len(rows) |-> rows[i].value]

\* every node above the node at k in the tree has its path in expandedPaths
AncestorsExpanded(tree, expandedPaths, k) ==
  \A i \in 1..(Len(tree[k].key) - 1) :
    \E a \in 1..Len(tree) :
      /\ tree[a].key = SubSeq(tree[k].key, 1, i)
      /\ tree[a].fullPath \in expandedPaths

\* C21: the rows of flattenTree are one row for each node all of whose
\* proper ancestors have their path in the expanded set and no other row;
\* with an empty expanded set the rows are those of the roots; and a folder
\* expanded and then collapsed again (or collapsed and then expanded again)
\* leaves the rows as they were.
C21_Visibility ==
  Shown =>
    LET tree == calc.args[1]
        expandedPaths == calc.args[2]
        rows == calc.result[1]
        visible == { k \in 1..Len(tree) : AncestorsExpanded(tree, expandedPaths, k) }
    IN  /\ Len(rows) = Cardinality(visible)
        /\ Range(RowValues(rows)) = { tree[k].fullPath : k \in visible }
        /\ \A i, j \in 1..Len(rows) : rows[i].value = rows[j].value => i = j
        /\ expandedPaths = {} =>
             /\ \A i \in 1..Len(rows) : rows[i].depth = 0
             /\ Len(rows) = Len(childrenOf(tree, << >>))
        /\ calc.fn = "toggle" =>
             LET all == Append(calc.history, rows)
             IN  \A i \in 1..(Len(calc.toggled) - 1) :
                   calc.toggled[i] = calc.toggled[i + 1] => all[i + 2] = all[i]

\* a folder with children was expanded, which added rows of its children,
\* and then collapsed again
C21_Witness ==
  /\ calc.fn = "toggle"
  /\ Len(calc.toggled) = 2
  /\ calc.toggled[1] = calc.toggled[2]
  /\ Len(calc.history[2]) > Len(calc.history[1])
  /\ \E i \in 1..Len(calc.history[2]) : calc.history[2][i].depth = 1
  /\ calc.result[1] = calc.history[1]

\* floor(N * 1024^power) in base 1024 for the well-formed numbers N among
\* the texts, worked out by hand
ExpectedBytes ==
  { [number |-> <<"0">>, power |-> 0, bytes |-> <<0>>],
    [number |-> <<"0">>, power |-> 1, bytes |-> <<0>>],
    [number |-> <<"0">>, power |-> 2, bytes |-> <<0>>],
    [number |-> <<"0">>, power |-> 3, bytes |-> <<0>>],
    [number |-> <<"0">>, power |-> 4, bytes |-> <<0>>],
    [number |-> <<"1">>, power |-> 0, bytes |-> <<1>>],
    [number |-> <<"1">>, power |-> 1, bytes |-> <<1, 0>>],
    [number |-> <<"1">>, power |-> 2, bytes |-> <<1, 0, 0>>],
    [number |-> <<"1">>, power |-> 3, bytes |-> <<1, 0, 0, 0>>],
    [number |-> <<"1">>, power |-> 4, bytes |-> <<1, 0, 0, 0, 0>>],
    [number |-> <<"2", "0">>, power |-> 0, bytes |-> <<20>>],
    [number |-> <<"2", "0">>, power |-> 1, bytes |-> <<20, 0>>],
    [number |-> <<"2", "0">>, power |-> 2, bytes |-> <<20, 0, 0>>],
    [number |-> <<"2", "0">>, power |-> 3, bytes |-> <<20, 0, 0, 0>>],
    [number |-> <<"2", "0">>, power |-> 4, bytes |-> <<20, 0, 0, 0, 0>>],
    [number |-> <<"1", ".", "5">>, power |-> 0, bytes |-> <<1>>],
    [number |-> <<"1", ".", "5">>, power |-> 1, bytes |-> <<1, 512>>],
    [number |-> <<"1", ".", "5">>, power |-> 2, bytes |-> <<1, 512, 0>>],
    [number |-> <<"1", ".", "5">>, power |-> 3, bytes |-> <<1, 512, 0, 0>>],
    [number |-> <<"1", ".", "5">>, power |-> 4, bytes |-> <<1, 512, 0, 0, 0>>],
    [number |-> <<"1", ".", "3">>, power |-> 0, bytes |-> <<1>>],
    [number |-> <<"1", ".", "3">>, power |-> 1, bytes |-> <<1, 307>>],
    [number |-> <<"1", ".", "3">>, power |-> 2, bytes |-> <<1, 307, 204>>],
    [number |-> <<"1", ".", "3">>, power |-> 3, bytes |-> <<1, 307, 204, 819>>],
    [number |-> <<"1", ".", "3">>, power |-> 4, bytes |-> <<1, 307, 204, 819, 204>>] }

\* the unit texts that are a unit in some case, with the power of 1024 each
\* stands for; no unit stands for bytes
UnitPowers ==
  { [unit |-> << >>, power |-> 0],
    [unit |-> <<"B">>, power |-> 0],
    [unit |-> <<"K", "B">>, power |-> 1],
    [unit |-> <<"k", "b">>, power |-> 1],
    [unit |-> <<"M", "B">>, power |-> 2],
    [unit |-> <<"M", "b">>, power |-> 2],
    [unit |-> <<"G", "B">>, power |-> 3],
    [unit |-> <<"T", "B">>, power |-> 4],
    [unit |-> <<"t", "b">>, power |-> 4] }

\* 10 MiB in base 1024
DefaultInBase1024 == << 10, 0, 0 >>

Constructed == calc.fn = "constructor"

\* the thresholds that text may stand for when it is a number and a unit
\* with the spaces of the set spaces before, between and after
ThresholdsOf(text, spaces) ==
  { e.bytes : e \in { x \in ExpectedBytes :
      \E u \in UnitPowers, before \in spaces, between \in spaces, after \in spaces :
        /\ u.power = x.power
        /\ text = before \o x.number \o between \o u.unit \o after } }

C23_SizeBytes ==
  pc = "resolved" =>
    \A i \in 1..Len(report.items) :
      LET item == report.items[i]
      IN  /\ NodeAt(item.path) # 0
          /\ item.sizeKb = sizeKbOf[NodeAt(item.path)]
          /\ item.sizeBytes = item.sizeKb * 1024

\* a report with items of two different sizes
C23_Witness ==
  /\ pc = "resolved"
  /\ \E i, j \in 1..Len(report.items) :
       /\ report.items[i].sizeKb # report.items[j].sizeKb
       /\ report.items[i].sizeBytes = 2 * report.items[j].sizeBytes
       /\ Call("getSizeInKb", NodeAt(report.items[i].path)) \in portLog

\* C24: when every port call returns or throws in the end, a scan that was
\* started settles, with any number of workers and over directories nested
\* deeper than the recursion goes.
C24_Termination == (pc = "scanning") ~> (pc \in { "resolved", "rejected" })

\* a scan with more than one worker has resolved without having listed a
\* directory that lies beneath a directory it listed at depth 4
C24_Witness ==
  /\ pc = "resolved"
  /\ concurrency > 1
  /\ \E d, e \in Nodes :
       /\ frame[d].pc = "done" /\ frame[d].currentDepth = 4
       /\ IsBeneath(e, d)
       /\ Entry(e).type = "directory"
       /\ AtOrAbove(e)
       /\ frame[e].pc = "none"

\* the number of path segments an item of the report lies below its target
ItemDepth(item) == calculateDepth(item.path, item.parentTargetPath)

\* C25: scanTargetRecursive is never entered with currentDepth > 4, and
\* every item of a report lies at most 5 path segments below its target for
\* an application-support target and at most 4 for a caches, containers or
\* group-containers target.
C25_DepthBound ==
  /\ \A n \in Nodes : frame[n].pc # "none" => frame[n].currentDepth <= 4
  /\ pc = "resolved" =>
       \A i \in 1..Len(report.items) :
         LET item == report.items[i]
         IN  /\ item.category = "application-support" => ItemDepth(item) <= 5
             /\ item.category \in {"caches", "containers", "group-containers"}
                  => ItemDepth(item) <= 4

\* a report of an application-support target with an item 5 segments below
\* the target that has a directory at or above the threshold inside
C25_Witness ==
  /\ pc = "resolved"
  /\ \E i \in 1..Len(report.items) :
       /\ report.items[i].category = "application-support"
       /\ ItemDepth(report.items[i]) = 5
       /\ \E c \in Nodes :
            /\ FsTree[c].parent = NodeAt(report.items[i].path)
            /\ Entry(c).type = "directory"
            /\ AtOrAbove(c)
            /\ ~ItemAt(c)

\* the node at d lies beneath the node at k in the tree
NodeBeneath(tree, d, k) ==
  /\ Len(tree[d].key) > Len(tree[k].key)
  /\ SubSeq(tree[d].key, 1, Len(tree[k].key)) = tree[k].key

\* the positions in itemList of the items with a defined appInstalled that
\* the tree holds beneath the node at k
DefinedBeneath(itemList, tree, k) ==
  { i \in 1..Len(itemList) :
      /\ itemList[i].appInstalled # << >>
      /\ \E d \in 1..Len(tree) :
           /\ NodeBeneath(tree, d, k)
           /\ \E j \in 1..Len(tree[d].items) : tree[d].items[j] = itemList[i] }

\* C26: a node of the tree built at which no item's path ends has the
\* appInstalled and matchedAppName of the first item of the input, among
\* those beneath it whose appInstalled is defined, whatever items follow,
\* and is orphaned exactly when that item's appInstalled is false; with no
\* such item it has neither and is not orphaned.
C26_FirstWins ==
  TreeBuilt =>
    LET itemList == calc.args[1]
        tree == calc.result[1]
    IN  \A k \in 1..Len(tree) :
          ~tree[k].isLeaf =>
            LET defined == DefinedBeneath(itemList, tree, k)
            IN  IF defined = {}
                THEN /\ tree[k].appInstalled = << >>
                     /\ tree[k].matchedAppName = << >>
                     /\ ~tree[k].isOrphaned
                ELSE LET first == itemList[CHOOSE i \in defined :
                                             \A j \in defined : i <= j]
                     IN  /\ tree[k].appInstalled = first.appInstalled
                         /\ tree[k].matchedAppName = first.matchedAppName
                         /\ tree[k].isOrphaned = (first.appInstalled = << FALSE >>)

\* a tree built from an item without a status, an item of an application
\* that is not installed and an item of an installed one, in this order,
\* all beneath one node, which is orphaned
C26_Witness ==
  /\ TreeBuilt
  /\ Len(calc.args[1]) = 3
  /\ calc.args[1][1].appInstalled = << >>
  /\ calc.args[1][2].appInstalled = << FALSE >>
  /\ calc.args[1][3].appInstalled = << TRUE >>
  /\ \E k \in 1..Len(calc.result[1]) :
       /\ ~calc.result[1][k].isLeaf
       /\ calc.result[1][k].isOrphaned
       /\ Len(calc.result[1][k].items) = 0
       /\ Cardinality(DefinedBeneath(calc.args[1], calc.result[1], k)) = 2

\* C27: in a report no path is both the path of an item and the path of a
\* skipped entry, in particular not that of a measured directory whose
\* children could not be listed.
C27_ItemsSkippedDisjoint ==
  pc = "resolved" =>
    \A i \in 1..Len(report.items) :
      \A j \in 1..Len(report.skipped) :
        report.items[i].path # report.skipped[j].path

\* the place of the item for node n in the report's items, 0 if it has none
ItemIndex(n) ==
  IF \E i \in 1..Len(report.items) : report.items[i].path = PathOf(n)
  THEN CHOOSE i \in 1..Len(report.items) : report.items[i].path = PathOf(n)
  ELSE 0

\* C28: in a report, under every interleaving, an item below the first
\* level of its target has its parent directory, and every directory
\* between the target and itself, among the items, earlier in the sequence.
C28_ParentBeforeDescendants ==
  pc = "resolved" =>
    \A m \in Nodes :
      ItemIndex(m) # 0 =>
        \A n \in Nodes :
          (IsEntry(n) /\ IsBeneath(m, n)) =>
            /\ ItemIndex(n) # 0
            /\ ItemIndex(n) < ItemIndex(m)

\* a report with an item below the first level of its target, recorded
\* after its parent and, in between, an item of another directory that a
\* second worker was recording
C28_Witness ==
  /\ pc = "resolved"
  /\ \E m \in Nodes :
       /\ ItemIndex(m) # 0
       /\ IsEntry(FsTree[m].parent)
       /\ \E o \in Nodes :
            /\ ItemIndex(o) # 0 /\ o # m /\ ~IsBeneath(m, o)
            /\ FsTree[o].parent # FsTree[m].parent
            /\ ItemIndex(FsTree[m].parent) < ItemIndex(o)
            /\ ItemIndex(o) < ItemIndex(m)

\* the entry of the target's own directory at or above entry n
RECURSIVE FirstLevelOf(_)
FirstLevelOf(n) ==
  IF FsTree[FsTree[n].parent].parent = 0 THEN n ELSE FirstLevelOf(FsTree[n].parent)

\* the item recorded for node n, when it has one
ItemOf(n) == CHOOSE it \in Range(items) : it.path = PathOf(n)

\* C29: in an application-support target scanned with a matcher, an item
\* nested inside a first-level folder that matched an installed application
\* has the safeToDelete of the classifier: the override for orphans does not
\* force it to true.
C29_OverrideOnlyPerApp ==
  pc = "resolved" =>
    \A n \in Nodes :
      ( /\ IsEntry(n) /\ ItemAt(n)
        /\ FirstLevelOf(n) # n
        /\ appMatcher # << >>
        /\ ItemOf(n).category = SCAN_CATEGORY.APP_SUPPORT
        /\ ItemOf(FirstLevelOf(n)).appInstalled = << TRUE >> ) =>
        ItemOf(n).safeToDelete =
          isSafeToDelete(PathOf(n), FsTree[n].name, ItemOf(n).category,
                         calculateDepth(PathOf(n), ItemOf(n).parentTargetPath))

\* the folder name literally contains the name or the bundle id of one of
\* the installed applications
ContainsInstalled(installedApps, folderName) ==
  \E i \in 1..Len(installedApps) :
    \/ includes(folderName, installedApps[i].name)
    \/ /\ installedApps[i].bundleId # << >>
       /\ includes(folderName, installedApps[i].bundleId)

\* C30: for a folder name that normalizes to the empty string and does not
\* literally contain an installed application's name or bundle id, match
\* returns isInstalled = false: no strategy matches on an overlap of zero
\* characters.
C30_NoVacuousMatch ==
  ( /\ calc.fn = "match" /\ calc.result # << >>
    /\ normalizeName(calc.args[2]) = << >>
    /\ ~ContainsInstalled(calc.args[1], calc.args[2]) ) =>
    ~calc.result[1].isInstalled

====
